---- MODULE Spec2Model ----
(***************************************************************************)
(* Model of the SkyClf model-lifecycle core.                               *)
(*                                                                         *)
(*  - internal/trainer/docker.go : Trainer (Start, Stop, Status, monitor,  *)
(*    restoreIdleContainer) driving one named Docker container.            *)
(*  - internal/infer (ORTPredictor): PredictImage, Reload, Close over one  *)
(*    active session with a fixed input/output tensor pair.                *)
(*                                                                         *)
(* The Docker daemon and the ONNX runtime are the environment: their calls *)
(* are modelled at the call sites, with failures drawn nondeterministically*)
(* (platform failures are counted in "faults").                            *)
(***************************************************************************)
EXTENDS Integers, Sequences, FiniteSets, TLC

\* ------------------------------------------------------------------ bounds
MaxStarts == 2      \* Start calls made on the Trainer (and so monitors launched)
MaxFaults == 1      \* injected Docker API failures in one behaviour
MaxReloads == 2     \* Reload calls made on the predictor
MaxPredicts == 2    \* PredictImage calls made on the predictor
IntBits == 3        \* bits of an int (64 in the build)
MaxChunks == 2      \* header-and-payload pieces a log input is made of
MaxPayload == 2     \* bytes that follow one header in a log input

\* ------------------------------------------------------------- trainer data
VARIABLES
    running,        \* Trainer.running
    startedAt,      \* Trainer.startedAt (0 is the zero time)
    lastExitCode,   \* Trainer.lastExitCode
    lastError,      \* Trainer.lastError
    lastLogs,       \* Trainer.lastLogs
    lastConfig,     \* Trainer.lastConfig (NilConfig when nil)
    baseConfig,     \* Trainer.baseConfig (NilConfig when nil)
    baseHostConfig, \* Trainer.baseHostConfig ("" when nil)
    mu,             \* Trainer.mu: "free" or the writer holding it
    containers,     \* Docker: every container ever created, by id
    slot,           \* Docker: id of the container named containerName, 0 if none
    nextId,         \* Docker: id the next ContainerCreate hands out
    faults,         \* Docker API calls that failed for outside reasons so far
    nstarts,        \* Start calls made so far
    startCall,      \* the Start call in progress
    stopCall,       \* the Stop call in progress
    statusCall,     \* the Status call in progress
    monitors        \* the monitor goroutines, by the Start call that launched them

trainerVars == <<running, startedAt, lastExitCode, lastError, lastLogs, lastConfig,
                 baseConfig, baseHostConfig, mu, containers, slot, nextId, faults,
                 nstarts, startCall, stopCall, statusCall, monitors>>

\* --------------------------------------------------------- predictor data
VARIABLES
    fs,             \* <modelsDir>/skystate: what each version directory holds
    cwd,            \* the process working directory
    pred,           \* the *ORTPredictor main holds: "nil" or "loaded"
    pmu,            \* ORTPredictor.mu: "free" or the goroutine holding it
    modelsDir,      \* ORTPredictor.modelsDir
    model,          \* ORTPredictor.model (NoModel when nil)
    session,        \* ORTPredictor.session (0 when nil)
    inTensor,       \* ORTPredictor.inTensor (0 when nil)
    outTensor,      \* ORTPredictor.outTensor (0 when nil)
    native,         \* ONNX runtime: the tensors and sessions made so far
    reloads,        \* the Reload calls
    predicts        \* the PredictImage calls

inferVars == <<fs, cwd, pred, pmu, modelsDir, model, session, inTensor, outTensor,
               native, reloads, predicts>>

\* ------------------------------------------------ calls of pure functions
VARIABLES
    findCall,       \* a FindSkyStateModel call: its arguments and what it returned
    stripCall       \* a stripDockerLogHeaders call: its argument and what it returned

pureVars == <<findCall, stripCall>>

\* the active state of the predictor (part_001:137-142)
active == <<modelsDir, model, session, inTensor, outTensor>>

\* job record of the Trainer (docker.go:54-59)
jobRecord == <<running, startedAt, lastExitCode, lastError, lastLogs, lastConfig>>

\* restoration template (docker.go:65-66)
template == <<baseConfig, baseHostConfig>>

\* Docker's bookkeeping of the managed name
platform == <<containers, slot, nextId>>

NilConfig == [nil |-> TRUE]

DefaultTrainConfig ==
    [Epochs |-> 10, BatchSize |-> 16, LR |-> "0.001", ImageSize |-> 224,
     Seed |-> 42, ValSplit |-> "0.2", FromScratch |-> FALSE]

\* configs a caller passes to Start
Configs == {DefaultTrainConfig,
            [DefaultTrainConfig EXCEPT !.Epochs = 5, !.FromScratch = TRUE]}

\* command of the compose-defined (idle) trainer container
IdleCmd == <<"idle">>

Digit(d) ==
    CASE d = 0 -> "0" [] d = 1 -> "1" [] d = 2 -> "2" [] d = 3 -> "3" [] d = 4 -> "4"
      [] d = 5 -> "5" [] d = 6 -> "6" [] d = 7 -> "7" [] d = 8 -> "8" [] d = 9 -> "9"

\* fmt.Sprintf("%d", n)
RECURSIVE FmtInt(_)
FmtInt(n) ==
    IF n < 0 THEN "-" \o FmtInt(0 - n)
    ELSE IF n < 10 THEN Digit(n)
    ELSE FmtInt(n \div 10) \o Digit(n % 10)

\* command Start builds from the config
TrainCmdPlain(cfg) ==
    <<"python", "-m", "trainer.train",
      "--epochs", FmtInt(cfg.Epochs),
      "--batch", FmtInt(cfg.BatchSize),
      "--lr", cfg.LR,
      "--img", FmtInt(cfg.ImageSize),
      "--seed", FmtInt(cfg.Seed),
      "--val", cfg.ValSplit>>

\* docker.go:158-170
TrainCmd(cfg) ==
    LET cmd == <<"python", "-m", "trainer.train",
                 "--epochs", FmtInt(cfg.Epochs),
                 "--batch", FmtInt(cfg.BatchSize),
                 "--lr", cfg.LR,
                 "--img", FmtInt(cfg.ImageSize),
                 "--seed", FmtInt(cfg.Seed),
                 "--val", cfg.ValSplit>>
    IN  IF cfg.FromScratch THEN Append(cmd, "--from-scratch") ELSE cmd

IsTrainCmd(cmd) == Len(cmd) >= 3 /\ cmd[3] = "trainer.train"

\* container.Config of the compose-defined container; Cmd is the field Start replaces
ComposeConfig == [Cmd |-> IdleCmd, Image |-> "skyclf-trainer", Env |-> "compose-env"]
ComposeHostConfig == "compose-volumes"

Mons == 1..MaxStarts
MaxIds == 2 * MaxStarts + 1
Ids == 1..MaxIds

ExitCodes == {0, 1, 137}

NoContainer == [state |-> "none", config |-> NilConfig, host |-> "", code |-> 0]

NoMonitor == [pc |-> "none", cid |-> 0, outcome |-> "none", code |-> 0,
              base |-> NilConfig, baseHost |-> "", cbs |-> 0, restores |-> 0,
              restored |-> 0, rmErr |-> FALSE, reloadCalls |-> 0, ctx |-> "live"]

\* a caller that is not inside Start, Stop, Status
\* (result is what the last call returned: "ok", "conflict", "error"; "none" before any)
StartReturn(res) == [pc |-> "idle", cfg |-> NilConfig, id |-> 0, result |-> res]
StopReturn(res) == [pc |-> "idle", id |-> 0, result |-> res]
StatusIdle == [pc |-> "idle", id |-> 0, run |-> FALSE]

\* fmt.Sprintf("training failed with exit code %d", code)
ExitErr(code) == "training failed with exit code " \o FmtInt(code)

\* ======================================================= model registry
\* names are strings of bytes; sort.Strings orders them byte by byte
Rank(c) ==
    CASE c = "0" -> 48 [] c = "1" -> 49 [] c = "2" -> 50 [] c = "3" -> 51
      [] c = "9" -> 57 [] c = "m" -> 109 [] c = "v" -> 118 [] c = "x" -> 120

RECURSIVE StrLess(_, _)
StrLess(a, b) ==
    IF a = <<>> THEN b # <<>>
    ELSE IF b = <<>> THEN FALSE
    ELSE IF a[1] = b[1] THEN StrLess(Tail(a), Tail(b))
    ELSE Rank(a[1]) < Rank(b[1])

\* strings.HasPrefix(name, "v")
HasPrefixV(name) == Len(name) >= 1 /\ name[1] = "v"

V1 == <<"v", "1">>
V2 == <<"v", "2">>
V3 == <<"v", "3">>
Versions == {V1, V2, V3}

\* a path: models root, "skystate", version directory, file in it
Path(root, sub, version, file) ==
    [root |-> root, sub |-> sub, version |-> version, file |-> file]

\* filepath.Dir and filepath.Base of a path to a file
PathDir(p) == [p EXCEPT !.file = ""]
PathBase(p) == p.file

\* a relative file name resolved against the working directory
Resolve(dir, name) == [dir EXCEPT !.file = name]

ModelsRoot == "/data/models"
OrigDir == Path("/app", "", <<>>, "")

\* classes.json: missing, not JSON, or a JSON object of name -> index
NoClasses == [kind |-> "missing", map |-> <<>>]
BadClasses == [kind |-> "garbage", map |-> <<>>]
ClassMap(m) == [kind |-> "json", map |-> m]
SkyClasses == ClassMap([clear |-> 0, cloudy |-> 1])

\* one entry of <modelsDir>/skystate
NoEntry == [kind |-> "absent", onnx |-> FALSE, classes |-> NoClasses]
ValidEntry == [kind |-> "dir", onnx |-> TRUE, classes |-> SkyClasses]
BrokenEntry == [kind |-> "dir", onnx |-> TRUE, classes |-> NoClasses]
EmptyEntry == [kind |-> "dir", onnx |-> FALSE, classes |-> NoClasses]

NoModel == [kind |-> "none"]
ScanErr(msg) == [kind |-> "error", msg |-> msg]

\* Go's int, scaled down to IntBits bits
MaxInt == 2^(IntBits - 1) - 1
MinInt == 0 - 2^(IntBits - 1)

\* part_001:76-86, the largest index in classes.json (-1 when there is none)
MaxIndex(m) ==
    IF \A n \in DOMAIN m : m[n] < 0 THEN 0 - 1
    ELSE CHOOSE i \in {m[n] : n \in DOMAIN m} : \A n \in DOMAIN m : m[n] <= i

\* part_001:87-92, the index->name arrays the map iteration can produce
NameArrays(m) ==
    {names \in [0..MaxIndex(m) -> DOMAIN m \cup {""}] :
        \A i \in 0..MaxIndex(m) :
           IF \E n \in DOMAIN m : m[n] = i
           THEN names[i] \in {n \in DOMAIN m : m[n] = i}
           ELSE names[i] = ""}

\* max+1 in Go's int
IncInt(x) == IF x = MaxInt THEN MinInt ELSE x + 1

\* make([]string, n) with a negative n
Panic == [kind |-> "panic"]

\* part_001:76-96: classes.json read as a map and turned into the index->name array
BuildNames(m) ==
    IF MaxIndex(m) < 0 THEN {ScanErr("classes.json empty")}
    ELSE IF IncInt(MaxIndex(m)) < 0 THEN {Panic}
    ELSE {IF \E i \in DOMAIN names : names[i] = ""
          THEN ScanErr("classes.json missing name for id "
                       \o FmtInt(CHOOSE i \in DOMAIN names :
                                    /\ names[i] = ""
                                    /\ \A j \in DOMAIN names :
                                          names[j] = "" => i <= j))
          ELSE [kind |-> "names", names |-> names]
          : names \in NameArrays(m)}

\* the version directory read with classes.json opened before model.onnx is looked for
LoadModelClassesFirst(ent, dir, version) ==
    IF ent.classes.kind = "missing" THEN {ScanErr("read classes.json")}
    ELSE IF ent.classes.kind = "garbage" THEN {ScanErr("parse classes.json")}
    ELSE IF ~ent.onnx THEN {NoModel}
    ELSE {IF b.kind = "names"
          THEN [kind |-> "model", Version |-> version, Dir |-> dir,
                OnnxPath |-> Resolve(dir, "model.onnx"),
                Classes |-> ent.classes.map, ClassNames |-> b.names]
          ELSE b
          : b \in BuildNames(ent.classes.map)}

\* part_001:60-104: the selected version directory is read
LoadModel(ent, dir, version) ==
    IF ~ent.onnx THEN {NoModel}
    ELSE IF ent.classes.kind = "missing" THEN {ScanErr("read classes.json")}
    ELSE IF ent.classes.kind = "garbage" THEN {ScanErr("parse classes.json")}
    ELSE {IF b.kind = "names"
          THEN [kind |-> "model", Version |-> version, Dir |-> dir,
                OnnxPath |-> Resolve(dir, "model.onnx"),
                Classes |-> ent.classes.map, ClassNames |-> b.names]
          ELSE b
          : b \in BuildNames(ent.classes.map)}

\* part_001:33-38: the directories whose name starts with "v"
ListVersions(root) ==
    {n \in DOMAIN root.ents : root.ents[n].kind = "dir" /\ HasPrefixV(n)}

\* the last of the names ordered as numbers: shorter first, then byte by byte
LatestByNumber(vers) ==
    CHOOSE v \in vers : \A w \in vers :
       ~(Len(v) < Len(w) \/ (Len(v) = Len(w) /\ StrLess(v, w)))

\* part_001:44-46: sort.Strings(vers), then the last one
Latest(vers) == CHOOSE v \in vers : \A w \in vers : ~StrLess(v, w)

\* part_001:23-105, every outcome FindSkyStateModel can return
FindSkyStateModel(root, modelsDirArg, version) ==
    LET vers == ListVersions(root)
        chosen == IF version = <<>> THEN Latest(vers) ELSE version
        dir == Path(modelsDirArg, "skystate", chosen, "")
    IN  IF ~root.exists THEN {NoModel}
        ELSE IF ~root.readable THEN {ScanErr("read models root")}
        ELSE IF vers = {} THEN {NoModel}
        ELSE IF chosen \notin vers THEN {NoModel}
        ELSE LoadModel(root.ents[chosen], dir, chosen)

\* is there a model.onnx at this path
OnnxAt(p) ==
    /\ p.root = ModelsRoot /\ p.sub = "skystate" /\ p.file = "model.onnx"
    /\ fs.exists
    /\ p.version \in DOMAIN fs.ents
    /\ fs.ents[p.version].kind = "dir"
    /\ fs.ents[p.version].onnx

\* ============================================================ predictor
Reloads == 1..MaxReloads
Predicts == 1..MaxPredicts

\* the sessions and tensor pairs: 0 is NewORTPredictor's, r is Reload call r's
Bundles == 0..MaxReloads
Nil == 0 - 1

NoPath == Path("", "", <<>>, "")
NoNative == [in |-> "none", out |-> "none", sess |-> "none", file |-> NoPath]

NoReload == [pc |-> "none", mi |-> NoModel, origDir |-> NoPath,
             sessErr |-> FALSE, oldSession |-> Nil, oldIn |-> Nil, oldOut |-> Nil,
             result |-> "none"]

NoResult == [kind |-> "none", ModelVer |-> <<>>, ModelPath |-> NoPath,
             ClassNames |-> <<>>]
NoPredict == [pc |-> "none", in |-> Nil, sess |-> Nil, out |-> Nil,
              result |-> NoResult]

\* Destroy() on a tensor or a session
Destroy(st) == IF st = "live" THEN "destroyed" ELSE "twice"

\* the new tensors are destroyed on an error path (part_001:288, 296-297, 301-302, 318-319)
DropTensors(r, in, out) ==
    [native EXCEPT ![r].in = IF in THEN Destroy(@) ELSE @,
                   ![r].out = IF out THEN Destroy(@) ELSE @]

ReloadReturn(r, res) == [reloads[r] EXCEPT !.pc = "done", !.result = res]

\* <modelsDir>/skystate with the given version directories
Root(ents) == [exists |-> TRUE, readable |-> TRUE, ents |-> ents]

\* part_000:120 found no model: NewORTPredictor returned a nil predictor
InitUnloaded ==
    /\ fs = Root([v \in Versions |-> NoEntry])
    /\ cwd = OrigDir
    /\ pred = "nil"
    /\ pmu = 0
    /\ modelsDir = ""
    /\ model = NoModel
    /\ session = Nil /\ inTensor = Nil /\ outTensor = Nil
    /\ native = [b \in Bundles |-> NoNative]
    /\ reloads = [r \in Reloads |-> NoReload]
    /\ predicts = [q \in Predicts |-> NoPredict]

\* part_001:145-224: NewORTPredictor found v1 and built its session
InitLoaded ==
    /\ fs = Root([v \in Versions |-> IF v = V1 THEN ValidEntry ELSE NoEntry])
    /\ cwd = OrigDir
    /\ pred = "loaded"
    /\ pmu = 0
    /\ modelsDir = ModelsRoot
    /\ model \in FindSkyStateModel(fs, ModelsRoot, <<>>)
    /\ session = 0 /\ inTensor = 0 /\ outTensor = 0
    /\ native = [b \in Bundles |->
                   IF b = 0
                   THEN [in |-> "live", out |-> "live", sess |-> "live",
                         file |-> Resolve(PathDir(model.OnnxPath), "model.onnx")]
                   ELSE NoNative]
    /\ reloads = [r \in Reloads |-> NoReload]
    /\ predicts = [q \in Predicts |-> NoPredict]

\* the trainer writes a new version directory (python side, not in src/)
ExportVersion ==
    /\ \E v \in Versions, ent \in {ValidEntry, BrokenEntry} :
         /\ fs.ents[v].kind = "absent"
         /\ \A w \in Versions : StrLess(w, v) => fs.ents[w].kind # "absent"
         /\ fs' = [fs EXCEPT !.ents[v] = ent]
    /\ UNCHANGED <<cwd, pred, pmu, active, native, reloads, predicts>>
    /\ UNCHANGED <<trainerVars, pureVars>>

\* ---------------------------------------------- FindSkyStateModel calls
V9 == <<"v", "9">>
V10 == <<"v", "1", "0">>
X1 == <<"x", "1">>
RegNames == {V9, V10, X1}

FileEntry == [kind |-> "file", onnx |-> FALSE, classes |-> NoClasses]

ClassIds == {0 - 1, 0, 1, 2, MaxInt}
ClassMaps == UNION {[S -> ClassIds] : S \in SUBSET {"", "clear", "cloudy"}}
ClassFiles == {NoClasses, BadClasses} \cup {ClassMap(m) : m \in ClassMaps}

\* the roots the calls are made on: no root, an unreadable one, every mix of
\* plain entries, and one directory with any content beside usable or no others
RegRoots ==
    {[exists |-> FALSE, readable |-> FALSE, ents |-> [n \in RegNames |-> NoEntry]],
     [exists |-> TRUE, readable |-> FALSE, ents |-> [n \in RegNames |-> ValidEntry]]}
    \cup {Root(e) : e \in [RegNames -> {NoEntry, FileEntry, ValidEntry, EmptyEntry}]}
    \cup {Root([n \in RegNames |-> IF n = probe
                                    THEN [kind |-> "dir", onnx |-> o, classes |-> c]
                                    ELSE other]) :
             probe \in RegNames, other \in {NoEntry, ValidEntry},
             o \in BOOLEAN, c \in ClassFiles}

NoFind == [pc |-> "none", root |-> Root(<<>>), version |-> <<>>, result |-> NoModel]
NoStrip == [pc |-> "none", parts |-> <<>>, tail |-> <<>>, data |-> <<>>,
            result |-> [kind |-> "none", out |-> <<>>]]

InitNoCalls ==
    /\ findCall = NoFind
    /\ stripCall = NoStrip

\* FindSkyStateModel is called and returns
FindModel ==
    /\ findCall.pc = "call"
    /\ \E res \in FindSkyStateModel(findCall.root, ModelsRoot, findCall.version) :
         findCall' = [findCall EXCEPT !.pc = "done", !.result = res]
    /\ UNCHANGED <<trainerVars, inferVars, stripCall>>

\* ------------------------------------------- stripDockerLogHeaders calls
\* docker.go:294 read from the other end
ChunkSizeLittleEndian(data) ==
    data[8] * 16777216 + data[7] * 65536 + data[6] * 256 + data[5]

\* docker.go:294: the size in bytes 4..7 of the header, most significant first
\* (an int has 64 bits in the build, so the 32-bit value never wraps)
ChunkSize(data) ==
    data[5] * 16777216 + data[6] * 65536 + data[7] * 256 + data[8]

\* data[lo:hi] of a Go slice, and whether the bounds are in range
InRange(data, lo, hi) == 0 <= lo /\ lo <= hi /\ hi <= Len(data)
Slice(data, lo, hi) == SubSeq(data, lo + 1, hi)

\* the size left as the header gives it
ClampNever(size, rest) == size

\* docker.go:297-299
Clamp(size, rest) == IF size > Len(rest) THEN Len(rest) ELSE size

\* docker.go:292-304: the loop; a slice out of range is a run-time panic
RECURSIVE StripLoop(_, _)
StripLoop(data, lines) ==
    IF Len(data) < 8 THEN [kind |-> "ok", lines |-> lines]
    ELSE LET rest == Slice(data, 8, Len(data))
             size == Clamp(ChunkSize(data), rest)
         IN  IF ~InRange(rest, 0, size) THEN [kind |-> "panic", lines |-> lines]
             ELSE StripLoop(Slice(rest, size, Len(rest)),
                            IF size > 0 THEN Append(lines, Slice(rest, 0, size))
                            ELSE lines)

\* strings.Join(lines, "")
RECURSIVE JoinLines(_)
JoinLines(lines) ==
    IF lines = <<>> THEN <<>> ELSE Head(lines) \o JoinLines(Tail(lines))

\* docker.go:290-306; string(bytes) keeps the bytes, so a string is its bytes
stripDockerLogHeaders(data) ==
    LET r == StripLoop(data, <<>>)
    IN  IF r.kind = "ok" THEN [kind |-> "ok", out |-> JoinLines(r.lines)]
        ELSE [kind |-> "panic", out |-> <<>>]

\* the log inputs: up to MaxChunks pieces, each a header (stream type 1 or 2,
\* reserved bytes 0 or 7, size 0, 1, 2 or 256) followed by up to MaxPayload
\* bytes, which need not be as many as the header says, and then a tail
LogHeaders ==
    {<<t[1], t[2], t[2], t[2], 0, 0, n[1], n[2]>> :
        t \in {<<1, 0>>, <<2, 7>>}, n \in {<<0, 0>>, <<0, 1>>, <<0, 2>>, <<1, 0>>}}
LogPayloads == UNION {[1..k -> {104, 105}] : k \in 0..MaxPayload}
LogChunks == [hdr : LogHeaders, payload : LogPayloads]
HelloChunk == [hdr |-> <<1, 0, 0, 0, 0, 0, 0, 5>>,
               payload |-> <<104, 101, 108, 108, 111>>]
LogInputs == UNION {[1..k -> LogChunks] : k \in 0..MaxChunks} \cup {<<HelloChunk>>}
LogTails == {<<>>, <<2, 0, 0>>}

RECURSIVE Flatten(_)
Flatten(parts) ==
    IF parts = <<>> THEN <<>>
    ELSE Head(parts).hdr \o Head(parts).payload \o Flatten(Tail(parts))

\* docker.go:281-286: getLogs hands what it read to stripDockerLogHeaders
StripLogs ==
    /\ stripCall.pc = "call"
    /\ stripCall' = [stripCall EXCEPT !.pc = "done",
                                      !.result = stripDockerLogHeaders(stripCall.data)]
    /\ UNCHANGED <<trainerVars, inferVars, findCall>>

InitTrainer ==
    /\ running = FALSE
    /\ startedAt = 0
    /\ lastExitCode = 0
    /\ lastError = ""
    /\ lastLogs = ""
    /\ lastConfig = NilConfig
    /\ baseConfig = NilConfig
    /\ baseHostConfig = ""
    /\ mu = "free"
    /\ containers = [i \in Ids |->
                       IF i = 1
                       THEN [state |-> "running", config |-> ComposeConfig,
                             host |-> ComposeHostConfig, code |-> 0]
                       ELSE NoContainer]
    /\ slot = 1
    /\ nextId = 2
    /\ faults = [n |-> 0, create |-> FALSE]
    /\ nstarts = 0
    /\ startCall = StartReturn("none")
    /\ stopCall = StopReturn("none")
    /\ statusCall = StatusIdle
    /\ monitors = [m \in Mons |-> NoMonitor]

\* --------------------------------------------------------- Docker API calls
\* a Docker API call may fail for reasons outside the program
CanFail == faults.n < MaxFaults

\* faults after a call that failed (fail) or not; create marks a failed ContainerCreate
Failure(fail, create) ==
    IF fail THEN [n |-> faults.n + 1, create |-> faults.create \/ create] ELSE faults

\* no Docker API call has failed for an outside reason
NoFault(f) == f.n = 0

\* ContainerInspect(containerName): (found, id, State.Running)
InspectFound == slot # 0
InspectRunning == slot # 0 /\ containers[slot].state = "running"

\* a ContainerWait is pending on container id: only then is its exit status ever read
Watched(id) == \E m \in Mons : monitors[m].pc = "wait" /\ monitors[m].cid = id

\* exit status Docker reports for container id when its process ends with status code
ExitStatus(id, code) == IF Watched(id) THEN code ELSE 0

\* ContainerRemove(containerName, Force): the named container is gone; a running one is killed
RemoveNamed ==
    IF slot = 0 THEN containers
    ELSE [containers EXCEPT ![slot] =
            [state |-> "removed", config |-> NilConfig, host |-> "",
             code |-> IF containers[slot].state = "running"
                      THEN ExitStatus(slot, 137) ELSE @.code]]

\* ContainerCreate(config, hostConfig, containerName): a created, not yet started container
CreateNamed(cfg, host) ==
    [containers EXCEPT ![nextId] = [state |-> "created", config |-> cfg,
                                    host |-> host, code |-> 0]]

\* ContainerStart(id) succeeds on a container that still exists
Startable(id) == id # 0 /\ containers[id].state \in {"created", "exited"}

\* --------------------------------------------------------------- Start
\* Start as it would be with the job record written before the running check
StartCheckRecordsFirst(cfgs) ==
    /\ startCall.pc = "idle"
    /\ mu = "free"
    /\ nstarts < MaxStarts
    /\ \E cfg \in cfgs, fail \in BOOLEAN :
        /\ fail => CanFail
        /\ faults' = Failure(fail, FALSE)
        /\ nstarts' = nstarts + 1
        /\ lastConfig' = cfg
        /\ IF ~fail /\ InspectRunning
           THEN /\ startCall' = StartReturn("conflict")
                /\ mu' = "free"
           ELSE /\ startCall' = [pc |-> "inspect", cfg |-> cfg, id |-> 0,
                                 result |-> "none"]
                /\ mu' = "start"
    /\ UNCHANGED <<inferVars, pureVars>>
    /\ UNCHANGED <<running, startedAt, lastExitCode, lastError, lastLogs, template,
                   platform, stopCall, statusCall, monitors>>

\* docker.go:137-144: take the lock, getContainerState, reject when running
StartCheck(cfgs) ==
    /\ startCall.pc = "idle"
    /\ mu = "free"
    /\ nstarts < MaxStarts
    /\ \E cfg \in cfgs, fail \in BOOLEAN :
        /\ fail => CanFail
        /\ faults' = Failure(fail, FALSE)
        /\ nstarts' = nstarts + 1
        /\ IF ~fail /\ InspectRunning
           THEN /\ startCall' = StartReturn("conflict")
                /\ mu' = "free"
           ELSE /\ startCall' = [pc |-> "inspect", cfg |-> cfg, id |-> 0,
                                 result |-> "none"]
                /\ mu' = "start"
    /\ UNCHANGED <<inferVars, pureVars>>
    /\ UNCHANGED <<jobRecord, template, platform, stopCall, statusCall, monitors>>

\* docker.go:146-156: inspect again, keep the existing config as the template
StartInspect ==
    /\ startCall.pc = "inspect"
    /\ \E fail \in BOOLEAN :
        /\ fail => CanFail
        /\ faults' = Failure(fail, FALSE)
        /\ IF fail \/ ~InspectFound
           THEN /\ startCall' = StartReturn("error")
                /\ mu' = "free"
                /\ UNCHANGED template
           ELSE /\ baseConfig' = containers[slot].config
                /\ baseHostConfig' = containers[slot].host
                /\ startCall' = [startCall EXCEPT !.pc = "remove"]
                /\ UNCHANGED mu
    /\ UNCHANGED <<inferVars, pureVars>>
    /\ UNCHANGED <<jobRecord, platform, nstarts, stopCall, statusCall, monitors>>

\* docker.go:172-175: remove the old container, an error is only logged
StartRemove ==
    /\ startCall.pc = "remove"
    /\ \E fail \in BOOLEAN :
        /\ fail => CanFail
        /\ faults' = Failure(fail, FALSE)
        /\ IF fail
           THEN UNCHANGED <<containers, slot>>
           ELSE containers' = RemoveNamed /\ slot' = 0
    /\ startCall' = [startCall EXCEPT !.pc = "create"]
    /\ UNCHANGED <<inferVars, pureVars>>
    /\ UNCHANGED <<jobRecord, template, mu, nextId, nstarts, stopCall, statusCall,
                   monitors>>

\* Start as it would be if a failed creation were written to the job record
StartCreateRecordsError ==
    /\ startCall.pc = "create"
    /\ \E fail \in BOOLEAN :
        /\ fail => CanFail
        /\ faults' = Failure(fail, TRUE)
        /\ IF fail \/ slot # 0
           THEN /\ startCall' = StartReturn("error")
                /\ mu' = "free"
                /\ lastError' = "recreate container"
                /\ UNCHANGED platform
           ELSE /\ containers' = CreateNamed([baseConfig EXCEPT
                                                !.Cmd = TrainCmd(startCall.cfg)],
                                             baseHostConfig)
                /\ slot' = nextId
                /\ nextId' = nextId + 1
                /\ startCall' = [startCall EXCEPT !.pc = "start", !.id = nextId]
                /\ UNCHANGED <<mu, lastError>>
    /\ UNCHANGED <<inferVars, pureVars>>
    /\ UNCHANGED <<running, startedAt, lastExitCode, lastLogs, lastConfig, template,
                   nstarts, stopCall, statusCall, monitors>>

\* docker.go:177-184: recreate under the same name with the training command
StartCreate ==
    /\ startCall.pc = "create"
    /\ \E fail \in BOOLEAN :
        /\ fail => CanFail
        /\ faults' = Failure(fail, TRUE)
        /\ IF fail \/ slot # 0
           THEN /\ startCall' = StartReturn("error")
                /\ mu' = "free"
                /\ UNCHANGED platform
           ELSE /\ containers' = CreateNamed([baseConfig EXCEPT
                                                !.Cmd = TrainCmd(startCall.cfg)],
                                             baseHostConfig)
                /\ slot' = nextId
                /\ nextId' = nextId + 1
                /\ startCall' = [startCall EXCEPT !.pc = "start", !.id = nextId]
                /\ UNCHANGED mu
    /\ UNCHANGED <<inferVars, pureVars>>
    /\ UNCHANGED <<jobRecord, template, nstarts, stopCall, statusCall, monitors>>

\* docker.go:186-201: start the container, reset the job record, launch the monitor
StartStart ==
    /\ startCall.pc = "start"
    /\ \E fail \in BOOLEAN :
        /\ fail => CanFail
        /\ faults' = Failure(fail, FALSE)
        /\ IF fail \/ ~Startable(startCall.id)
           THEN /\ startCall' = StartReturn("error")
                /\ UNCHANGED <<jobRecord, containers, monitors>>
           ELSE /\ containers' = [containers EXCEPT ![startCall.id].state = "running"]
                /\ running' = TRUE
                /\ startedAt' = nstarts
                /\ lastError' = ""
                /\ lastLogs' = ""
                /\ lastConfig' = startCall.cfg
                /\ UNCHANGED lastExitCode
                /\ monitors' = [monitors EXCEPT ![nstarts] =
                                  [NoMonitor EXCEPT !.pc = "wait", !.cid = startCall.id]]
                /\ startCall' = StartReturn("ok")
    /\ mu' = "free"
    /\ UNCHANGED <<inferVars, pureVars>>
    /\ UNCHANGED <<template, slot, nextId, nstarts, stopCall, statusCall>>

\* ---------------------------------------------------------------- Stop
\* docker.go:206-212: take the lock, getContainerState, reject when nothing runs
StopCheck ==
    /\ stopCall.pc = "idle"
    /\ mu = "free"
    /\ \E fail \in BOOLEAN :
        /\ fail => CanFail
        /\ faults' = Failure(fail, FALSE)
        /\ IF fail \/ ~InspectRunning
           THEN /\ stopCall' = StopReturn("conflict")
                /\ mu' = "free"
           ELSE /\ stopCall' = [pc |-> "stop", id |-> slot, result |-> "none"]
                /\ mu' = "stop"
    /\ UNCHANGED <<inferVars, pureVars>>
    /\ UNCHANGED <<jobRecord, template, platform, nstarts, startCall, statusCall,
                   monitors>>

\* Stop as it would be if it cleared the running flag itself
StopIssueClearsFlag ==
    /\ stopCall.pc = "stop"
    /\ \E fail \in BOOLEAN, code \in {0, 137} :
        /\ fail => CanFail
        /\ faults' = Failure(fail, FALSE)
        /\ IF fail \/ containers[stopCall.id].state = "removed"
           THEN /\ stopCall' = StopReturn("error")
                /\ UNCHANGED containers
           ELSE /\ stopCall' = StopReturn("ok")
                /\ containers' =
                     IF containers[stopCall.id].state = "running"
                     THEN [containers EXCEPT ![stopCall.id].state = "exited",
                                             ![stopCall.id].code =
                                                 ExitStatus(stopCall.id, code)]
                     ELSE containers
    /\ mu' = "free"
    /\ UNCHANGED <<inferVars, pureVars>>
    /\ running' = FALSE
    /\ UNCHANGED <<startedAt, lastExitCode, lastError, lastLogs, lastConfig, template, slot, nextId, nstarts, startCall, statusCall,
                   monitors>>

\* docker.go:214-220: ContainerStop with a 10 s grace period; the process ends
\* on the signal (code 0 when it handles it, 137 when it is killed)
StopIssue ==
    /\ stopCall.pc = "stop"
    /\ \E fail \in BOOLEAN, code \in {0, 137} :
        /\ fail => CanFail
        /\ faults' = Failure(fail, FALSE)
        /\ IF fail \/ containers[stopCall.id].state = "removed"
           THEN /\ stopCall' = StopReturn("error")
                /\ UNCHANGED containers
           ELSE /\ stopCall' = StopReturn("ok")
                /\ containers' =
                     IF containers[stopCall.id].state = "running"
                     THEN [containers EXCEPT ![stopCall.id].state = "exited",
                                             ![stopCall.id].code =
                                                 ExitStatus(stopCall.id, code)]
                     ELSE containers
    /\ mu' = "free"
    /\ UNCHANGED <<inferVars, pureVars>>
    /\ UNCHANGED <<jobRecord, template, slot, nextId, nstarts, startCall, statusCall,
                   monitors>>

\* -------------------------------------------------------------- Status
\* docker.go:96-97 and 126-132: getContainerState before the read lock is taken
StatusInspect ==
    /\ statusCall.pc = "idle"
    /\ \E fail \in BOOLEAN :
        /\ fail => CanFail
        /\ faults' = Failure(fail, FALSE)
        /\ statusCall' =
             IF fail \/ ~InspectFound
             THEN [statusCall EXCEPT !.pc = "read", !.id = 0, !.run = FALSE]
             ELSE [statusCall EXCEPT !.pc = "read", !.id = slot,
                                     !.run = containers[slot].state = "running"]
    /\ UNCHANGED <<inferVars, pureVars>>
    /\ UNCHANGED <<jobRecord, template, mu, platform, nstarts, startCall, stopCall,
                   monitors>>

\* Status as it would be if it reported the cached flag alone
StatusResultCacheOnly(id, run, logsOk) ==
    [Running |-> running,
     ContainerID |-> id,
     StartedAt |-> startedAt,
     ExitCode |-> lastExitCode,
     Error |-> lastError,
     Logs |-> IF running /\ id # 0 /\ logsOk THEN "log" ELSE lastLogs,
     LastConfig |-> lastConfig]

\* docker.go:102-120: what Status returns, given the live state seen before the lock
StatusResult(id, run, logsOk) ==
    LET trainingRunning == running /\ run
    IN  [Running |-> trainingRunning,
         ContainerID |-> id,
         StartedAt |-> startedAt,
         ExitCode |-> lastExitCode,
         Error |-> lastError,
         Logs |-> IF trainingRunning /\ id # 0 /\ logsOk THEN "log" ELSE lastLogs,
         LastConfig |-> lastConfig]

\* docker.go:99-123: under the read lock, build the status and return it
StatusRead ==
    /\ statusCall.pc = "read"
    /\ mu = "free"
    /\ statusCall' = StatusIdle
    /\ UNCHANGED <<inferVars, pureVars>>
    /\ UNCHANGED <<jobRecord, template, mu, platform, faults, nstarts, startCall,
                   stopCall, monitors>>

\* ------------------------------------------------------------- monitor
\* the monitor's calls, as they would be if made under the context given to Start
MonitorCtxFromStart(m) == monitors[m].ctx = "cancelled"

\* docker.go:225: the monitor's calls run under context.Background(), never done
MonitorCtxDone(m) == FALSE

\* part_000:197-205: the Reload calls OnComplete makes, none on a nil predictor
OnComplete == IF pred # "nil" THEN 1 ELSE 0

\* err.Error() of a failed ContainerWait
WaitErrText(removed) ==
    IF removed THEN "Error: No such container" ELSE "error during connect"

\* the wait-error branch as it would be with a return in it
MonitorWaitErrorReturns(m) ==
    /\ monitors[m].pc = "wait"
    /\ mu = "free"
    /\ \E fail \in BOOLEAN :
        /\ fail => CanFail
        /\ ~fail => containers[monitors[m].cid].state = "removed"
        /\ faults' = Failure(fail, FALSE)
        /\ lastError' = WaitErrText(~fail)
    /\ running' = FALSE
    /\ monitors' = [monitors EXCEPT ![m].pc = "done", ![m].outcome = "waiterr",
                                    ![m].cid = 0]
    /\ UNCHANGED <<inferVars, pureVars>>
    /\ UNCHANGED <<startedAt, lastExitCode, lastLogs, lastConfig, template, mu,
                   platform, nstarts, startCall, stopCall, statusCall>>

\* docker.go:229-235: the wait call itself errors
MonitorWaitError(m) ==
    /\ monitors[m].pc = "wait"
    /\ mu = "free"
    /\ \E fail \in BOOLEAN :
        /\ fail => CanFail
        /\ ~fail => (containers[monitors[m].cid].state = "removed" \/ MonitorCtxDone(m))
        /\ faults' = Failure(fail, FALSE)
        /\ lastError' = WaitErrText(~fail)
    /\ running' = FALSE
    /\ monitors' = [monitors EXCEPT ![m].pc = "restore", ![m].outcome = "waiterr",
                                    ![m].cid = 0]
    /\ UNCHANGED <<inferVars, pureVars>>
    /\ UNCHANGED <<startedAt, lastExitCode, lastLogs, lastConfig, template, mu,
                   platform, nstarts, startCall, stopCall, statusCall>>

\* the monitor as it would be if it went on to the callback with the lock held
MonitorExitKeepsLock(m) ==
    /\ monitors[m].pc = "wait"
    /\ mu = "free"
    /\ containers[monitors[m].cid].state \in {"exited", "removed"}
    /\ LET code == containers[monitors[m].cid].code
       IN /\ \E logs \in {"", "log"}, resErr \in BOOLEAN :
               /\ resErr => CanFail
               /\ (logs = "" /\ ~resErr) => containers[monitors[m].cid].state = "removed"
               /\ faults' = Failure(resErr, FALSE)
               /\ lastLogs' = logs
               /\ lastError' = IF resErr THEN "wait result error"
                               ELSE IF code # 0 THEN ExitErr(code)
                               ELSE lastError
          /\ running' = FALSE
          /\ lastExitCode' = code
          /\ monitors' = [monitors EXCEPT ![m].pc = "callback", ![m].outcome = "exit",
                                          ![m].code = code, ![m].cid = 0]
    /\ UNCHANGED <<inferVars, pureVars>>
    /\ mu' = "monitor"
    /\ UNCHANGED <<startedAt, lastConfig, template, platform, nstarts, startCall,
                   stopCall, statusCall>>

\* docker.go:237-250: the container left the running state with a status code
MonitorExit(m) ==
    /\ monitors[m].pc = "wait"
    /\ mu = "free"
    /\ containers[monitors[m].cid].state \in {"exited", "removed"}
    /\ LET code == containers[monitors[m].cid].code
       IN /\ \E logs \in {"", "log"}, resErr \in BOOLEAN :
               /\ resErr => CanFail
               /\ (logs = "" /\ ~resErr) => containers[monitors[m].cid].state = "removed"
               /\ faults' = Failure(resErr, FALSE)
               /\ lastLogs' = logs
               /\ lastError' = IF resErr THEN "wait result error"
                               ELSE IF code # 0 THEN ExitErr(code)
                               ELSE lastError
          /\ running' = FALSE
          /\ lastExitCode' = code
          /\ monitors' = [monitors EXCEPT ![m].pc = "callback", ![m].outcome = "exit",
                                          ![m].code = code, ![m].cid = 0]
    /\ UNCHANGED <<inferVars, pureVars>>
    /\ UNCHANGED <<startedAt, lastConfig, template, mu, platform, nstarts, startCall,
                   stopCall, statusCall>>

\* the callback step as it would be without the StatusCode == 0 test
MonitorCallbackAlways(m) ==
    /\ monitors[m].pc = "callback"
    /\ monitors' = [monitors EXCEPT ![m].pc = "restore", ![m].cbs = @ + 1]
    /\ UNCHANGED <<inferVars, pureVars>>
    /\ UNCHANGED <<jobRecord, template, mu, platform, faults, nstarts, startCall,
                   stopCall, statusCall>>

\* docker.go:252-260: OnComplete is called, outside the lock, when the code is 0
MonitorCallback(m) ==
    /\ monitors[m].pc = "callback"
    /\ monitors' = [monitors EXCEPT
                      ![m].pc = "restore",
                      ![m].cbs = IF monitors[m].code = 0 THEN @ + 1 ELSE @,
                      ![m].reloadCalls = IF monitors[m].code = 0 THEN @ + OnComplete
                                         ELSE @]
    /\ UNCHANGED <<inferVars, pureVars>>
    /\ UNCHANGED <<jobRecord, template, mu, platform, faults, nstarts, startCall,
                   stopCall, statusCall>>

\* docker.go:264 and 310-318: restoreIdleContainer reads the template under the read lock
RestoreRead(m) ==
    /\ monitors[m].pc = "restore"
    /\ mu = "free"
    /\ monitors' = [monitors EXCEPT
                      ![m].pc = IF baseConfig = NilConfig \/ baseHostConfig = ""
                                THEN "done" ELSE "remove",
                      ![m].base = baseConfig,
                      ![m].baseHost = baseHostConfig,
                      ![m].restores = @ + 1]
    /\ UNCHANGED <<inferVars, pureVars>>
    /\ UNCHANGED <<jobRecord, template, mu, platform, faults, nstarts, startCall,
                   stopCall, statusCall>>

\* restoration as it would be if a removal error made it return
RestoreRemoveStopsOnError(m) ==
    /\ monitors[m].pc = "remove"
    /\ \E fail \in BOOLEAN :
        /\ fail => CanFail
        /\ faults' = Failure(fail, FALSE)
        /\ IF fail \/ slot = 0
           THEN /\ UNCHANGED <<containers, slot>>
                /\ monitors' = [monitors EXCEPT ![m].pc = "done", ![m].base = NilConfig,
                                                ![m].baseHost = ""]
           ELSE /\ containers' = RemoveNamed /\ slot' = 0
                /\ monitors' = [monitors EXCEPT ![m].pc = "create"]
    /\ UNCHANGED <<inferVars, pureVars>>
    /\ UNCHANGED <<jobRecord, template, mu, nextId, nstarts, startCall, stopCall,
                   statusCall>>

\* docker.go:320-323: remove whatever holds the name, an error is only logged
RestoreRemove(m) ==
    /\ monitors[m].pc = "remove"
    /\ \E fail \in BOOLEAN :
        /\ fail => CanFail
        /\ faults' = Failure(fail, FALSE)
        /\ IF fail \/ MonitorCtxDone(m)
           THEN UNCHANGED <<containers, slot>>
           ELSE containers' = RemoveNamed /\ slot' = 0
        /\ monitors' = [monitors EXCEPT
                          ![m].pc = "create",
                          ![m].rmErr = fail \/ MonitorCtxDone(m) \/ slot = 0]
    /\ UNCHANGED <<inferVars, pureVars>>
    /\ UNCHANGED <<jobRecord, template, mu, nextId, nstarts, startCall, stopCall,
                   statusCall>>

\* restoration as it would be if it stopped after the removal
RestoreCreateGivesUp(m) ==
    /\ monitors[m].pc = "create"
    /\ monitors' = [monitors EXCEPT ![m].pc = "done", ![m].base = NilConfig,
                                    ![m].baseHost = "", ![m].rmErr = FALSE]
    /\ UNCHANGED <<inferVars, pureVars>>
    /\ UNCHANGED <<jobRecord, template, mu, platform, faults, nstarts, startCall,
                   stopCall, statusCall>>

\* docker.go:325-332: recreate from the template under the same name
RestoreCreate(m) ==
    /\ monitors[m].pc = "create"
    /\ \E fail \in BOOLEAN :
        /\ fail => CanFail
        /\ faults' = Failure(fail, TRUE)
        /\ IF fail \/ MonitorCtxDone(m) \/ slot # 0
           THEN /\ monitors' = [monitors EXCEPT ![m].pc = "done", ![m].base = NilConfig,
                                                ![m].baseHost = "", ![m].rmErr = FALSE]
                /\ UNCHANGED platform
           ELSE /\ containers' = CreateNamed(monitors[m].base, monitors[m].baseHost)
                /\ slot' = nextId
                /\ nextId' = nextId + 1
                /\ monitors' = [monitors EXCEPT ![m].pc = "start",
                                                ![m].restored = nextId]
    /\ UNCHANGED <<inferVars, pureVars>>
    /\ UNCHANGED <<jobRecord, template, mu, nstarts, startCall, stopCall, statusCall>>

\* docker.go:334-339: start the idle container
RestoreStart(m) ==
    /\ monitors[m].pc = "start"
    /\ \E fail \in BOOLEAN :
        /\ fail => CanFail
        /\ faults' = Failure(fail, FALSE)
        /\ containers' =
             IF fail \/ MonitorCtxDone(m) \/ ~Startable(monitors[m].restored)
             THEN containers
             ELSE [containers EXCEPT ![monitors[m].restored].state = "running"]
    /\ monitors' = [monitors EXCEPT ![m].pc = "done", ![m].base = NilConfig,
                                    ![m].baseHost = "", ![m].restored = 0,
                                    ![m].rmErr = FALSE]
    /\ UNCHANGED <<inferVars, pureVars>>
    /\ UNCHANGED <<jobRecord, template, mu, slot, nextId, nstarts, startCall,
                   stopCall, statusCall>>

\* ---------------------------------------------------------- environment
\* the caller of a Start that returned ok cancels the context it had passed
\* (the HTTP request ends) while the monitor of that job is at work
CancelCtx(m) ==
    /\ monitors[m].pc \notin {"none", "done"}
    /\ monitors[m].ctx = "live"
    /\ monitors' = [monitors EXCEPT ![m].ctx = "cancelled"]
    /\ UNCHANGED <<inferVars, pureVars>>
    /\ UNCHANGED <<jobRecord, template, mu, platform, faults, nstarts, startCall,
                   stopCall, statusCall>>

\* the process of the running container ends on its own
ContainerExit ==
    /\ slot # 0
    /\ containers[slot].state = "running"
    /\ \E code \in {0, 1} :
         containers' = [containers EXCEPT ![slot].state = "exited",
                                          ![slot].code = ExitStatus(slot, code)]
    /\ UNCHANGED <<inferVars, pureVars>>
    /\ UNCHANGED <<jobRecord, template, mu, slot, nextId, faults, nstarts, startCall,
                   stopCall, statusCall, monitors>>

\* --------------------------------------------------------------- Reload
\* Reload as it would be if a missing model were reported as a failed scan
ReloadScanNoModelFails(r) ==
    /\ reloads[r].pc = "none"
    /\ \A s \in Reloads : s < r => reloads[s].pc # "none"
    /\ \E version \in Versions \cup {<<>>}, dirArg \in {"", ModelsRoot} :
         IF pred = "nil"
         THEN reloads' = [reloads EXCEPT ![r] = ReloadReturn(r, "predictor is nil")]
         ELSE \E mi \in FindSkyStateModel(fs, IF dirArg = "" THEN modelsDir
                                                             ELSE dirArg, version) :
                reloads' = [reloads EXCEPT ![r] =
                   IF mi.kind = "error" THEN ReloadReturn(r, "scan models")
                   ELSE IF mi.kind = "panic" THEN ReloadReturn(r, "panic")
                   ELSE IF mi.kind = "none" THEN ReloadReturn(r, "scan models")
                   ELSE [@ EXCEPT !.pc = "check", !.mi = mi]]
    /\ UNCHANGED <<fs, cwd, pred, pmu, active, native, predicts>>
    /\ UNCHANGED <<trainerVars, pureVars>>

\* part_001:248-265: nil receiver, default models dir, registry scan
ReloadScan(r) ==
    /\ reloads[r].pc = "none"
    /\ \A s \in Reloads : s < r => reloads[s].pc # "none"
    /\ \E version \in Versions \cup {<<>>}, dirArg \in {"", ModelsRoot} :
         IF pred = "nil"
         THEN reloads' = [reloads EXCEPT ![r] = ReloadReturn(r, "predictor is nil")]
         ELSE \E mi \in FindSkyStateModel(fs, IF dirArg = "" THEN modelsDir
                                                             ELSE dirArg, version) :
                reloads' = [reloads EXCEPT ![r] =
                   IF mi.kind = "error" THEN ReloadReturn(r, "scan models")
                   ELSE IF mi.kind = "panic" THEN ReloadReturn(r, "panic")
                   ELSE IF mi.kind = "none" THEN ReloadReturn(r, "no model")
                   ELSE [@ EXCEPT !.pc = "check", !.mi = mi]]
    /\ UNCHANGED <<fs, cwd, pred, pmu, active, native, predicts>>
    /\ UNCHANGED <<trainerVars, pureVars>>

\* part_001:267-274: under the lock, nothing to do when the path is the active one
ReloadCheck(r) ==
    /\ reloads[r].pc = "check"
    /\ pmu = 0
    /\ reloads' = [reloads EXCEPT ![r] =
          IF model # NoModel /\ model.OnnxPath = reloads[r].mi.OnnxPath
          THEN ReloadReturn(r, "unchanged")
          ELSE [@ EXCEPT !.pc = "alloc"]]
    /\ UNCHANGED <<fs, cwd, pred, pmu, active, native, predicts>>
    /\ UNCHANGED <<trainerVars, pureVars>>

\* part_001:278-298: the new tensors, then the working directory is read
ReloadAlloc(r) ==
    /\ reloads[r].pc = "alloc"
    /\ \E fail \in {"none", "in", "out", "getwd"} :
         /\ native' = [native EXCEPT
               ![r].in = IF fail = "in" THEN "none"
                         ELSE IF fail = "none" THEN "live" ELSE "destroyed",
               ![r].out = IF fail \in {"in", "out"} THEN "none"
                          ELSE IF fail = "none" THEN "live" ELSE "destroyed"]
         /\ reloads' = [reloads EXCEPT ![r] =
               IF fail = "in" THEN ReloadReturn(r, "create input tensor")
               ELSE IF fail = "out" THEN ReloadReturn(r, "create output tensor")
               ELSE IF fail = "getwd" THEN ReloadReturn(r, "get working dir")
               ELSE [@ EXCEPT !.pc = "chdir", !.origDir = cwd]]
    /\ UNCHANGED <<fs, cwd, pred, pmu, active, predicts>>
    /\ UNCHANGED <<trainerVars, pureVars>>

\* part_001:299-303: os.Chdir(modelDir)
ReloadChdir(r) ==
    /\ reloads[r].pc = "chdir"
    /\ \E fail \in BOOLEAN :
         IF fail
         THEN /\ native' = DropTensors(r, TRUE, TRUE)
              /\ reloads' = [reloads EXCEPT ![r] =
                                ReloadReturn(r, "chdir to model dir")]
              /\ UNCHANGED cwd
         ELSE /\ cwd' = PathDir(reloads[r].mi.OnnxPath)
              /\ reloads' = [reloads EXCEPT ![r].pc = "session"]
              /\ UNCHANGED native
    /\ UNCHANGED <<fs, pred, pmu, active, predicts>>
    /\ UNCHANGED <<trainerVars, pureVars>>

\* part_001:305-311: NewSession opens the bare file name in the working directory
ReloadNewSession(r) ==
    /\ reloads[r].pc = "session"
    /\ \E fail \in BOOLEAN :
         LET file == Resolve(cwd, PathBase(reloads[r].mi.OnnxPath))
         IN  IF fail \/ ~OnnxAt(file)
             THEN /\ reloads' = [reloads EXCEPT ![r].pc = "chdirback",
                                                ![r].sessErr = TRUE]
                  /\ UNCHANGED native
             ELSE /\ reloads' = [reloads EXCEPT ![r].pc = "chdirback"]
                  /\ native' = [native EXCEPT ![r].sess = "live", ![r].file = file]
    /\ UNCHANGED <<fs, cwd, pred, pmu, active, predicts>>
    /\ UNCHANGED <<trainerVars, pureVars>>

\* Reload as it would be if a session error returned without destroying the tensors
ReloadChdirBackLeaks(r) ==
    /\ reloads[r].pc = "chdirback"
    /\ cwd' = reloads[r].origDir
    /\ reloads' = [reloads EXCEPT ![r] =
          IF reloads[r].sessErr
          THEN [ReloadReturn(r, "create session") EXCEPT !.origDir = NoPath]
          ELSE [@ EXCEPT !.pc = "swap", !.origDir = NoPath]]
    /\ UNCHANGED <<fs, pred, pmu, active, native, predicts>>
    /\ UNCHANGED <<trainerVars, pureVars>>

\* part_001:312-321: os.Chdir(origDir), then the session error is handled
ReloadChdirBack(r) ==
    /\ reloads[r].pc = "chdirback"
    /\ cwd' = reloads[r].origDir
    /\ IF reloads[r].sessErr
       THEN /\ native' = DropTensors(r, TRUE, TRUE)
            /\ reloads' = [reloads EXCEPT ![r] =
                  [ReloadReturn(r, "create session") EXCEPT !.origDir = NoPath]]
       ELSE /\ reloads' = [reloads EXCEPT ![r].pc = "swap", ![r].origDir = NoPath]
            /\ UNCHANGED native
    /\ UNCHANGED <<fs, pred, pmu, active, predicts>>
    /\ UNCHANGED <<trainerVars, pureVars>>

\* Reload as it would be if the swap did not take the lock
ReloadSwapUnlocked(r) ==
    /\ reloads[r].pc = "swap"
    /\ reloads' = [reloads EXCEPT ![r].pc = "cleanup", ![r].oldSession = session,
                                  ![r].oldIn = inTensor, ![r].oldOut = outTensor]
    /\ model' = reloads[r].mi
    /\ session' = r
    /\ inTensor' = r
    /\ outTensor' = r
    /\ modelsDir' = reloads[r].mi.Dir.root
    /\ UNCHANGED <<fs, cwd, pred, pmu, native, predicts>>
    /\ UNCHANGED <<trainerVars, pureVars>>

\* part_001:323-334: under the lock, the new model, session and tensors go live
ReloadSwap(r) ==
    /\ reloads[r].pc = "swap"
    /\ pmu = 0
    /\ reloads' = [reloads EXCEPT ![r].pc = "cleanup", ![r].oldSession = session,
                                  ![r].oldIn = inTensor, ![r].oldOut = outTensor]
    /\ model' = reloads[r].mi
    /\ session' = r
    /\ inTensor' = r
    /\ outTensor' = r
    /\ modelsDir' = reloads[r].mi.Dir.root
    /\ UNCHANGED <<fs, cwd, pred, pmu, native, predicts>>
    /\ UNCHANGED <<trainerVars, pureVars>>

\* Reload as it would be if it released the old session and kept the old tensors
ReloadCleanupSessionOnly(r) ==
    /\ reloads[r].pc = "cleanup"
    /\ LET s == reloads[r].oldSession
       IN  native' = IF s # Nil THEN [native EXCEPT ![s].sess = Destroy(@)] ELSE native
    /\ reloads' = [reloads EXCEPT ![r] =
          [ReloadReturn(r, "reloaded") EXCEPT !.oldSession = Nil, !.oldIn = Nil,
                                              !.oldOut = Nil]]
    /\ UNCHANGED <<fs, cwd, pred, pmu, active, predicts>>
    /\ UNCHANGED <<trainerVars, pureVars>>

\* Reload as it would be if it released what it has just made active
ReloadCleanupNew(r) ==
    /\ reloads[r].pc = "cleanup"
    /\ native' = [native EXCEPT ![r].sess = Destroy(@), ![r].in = Destroy(@),
                                ![r].out = Destroy(@)]
    /\ reloads' = [reloads EXCEPT ![r] =
          [ReloadReturn(r, "reloaded") EXCEPT !.oldSession = Nil, !.oldIn = Nil,
                                              !.oldOut = Nil]]
    /\ UNCHANGED <<fs, cwd, pred, pmu, active, predicts>>
    /\ UNCHANGED <<trainerVars, pureVars>>

\* part_001:336-349: the old session and tensors are destroyed outside the lock
ReloadCleanup(r) ==
    /\ reloads[r].pc = "cleanup"
    /\ LET s == reloads[r].oldSession
           i == reloads[r].oldIn
           o == reloads[r].oldOut
           n1 == IF s # Nil THEN [native EXCEPT ![s].sess = Destroy(@)] ELSE native
           n2 == IF i # Nil THEN [n1 EXCEPT ![i].in = Destroy(@)] ELSE n1
       IN  native' = IF o # Nil THEN [n2 EXCEPT ![o].out = Destroy(@)] ELSE n2
    /\ reloads' = [reloads EXCEPT ![r] =
          [ReloadReturn(r, "reloaded") EXCEPT !.oldSession = Nil, !.oldIn = Nil,
                                              !.oldOut = Nil]]
    /\ UNCHANGED <<fs, cwd, pred, pmu, active, predicts>>
    /\ UNCHANGED <<trainerVars, pureVars>>

\* --------------------------------------------------------- PredictImage
PredictReturn(q, res) == [pc |-> "done", in |-> predicts[q].in,
                          sess |-> predicts[q].sess, out |-> predicts[q].out,
                          result |-> res]

PredictErr == [NoResult EXCEPT !.kind = "error"]

\* PredictImage as it would be if it took the lock first and returned holding it
PredictCheckLocks(q) ==
    /\ predicts[q].pc = "none"
    /\ \A s \in Predicts : s < q => predicts[s].pc # "none"
    /\ predicts' = [predicts EXCEPT ![q] =
          IF pred = "nil" \/ session = Nil \/ model = NoModel
          THEN PredictReturn(q, [NoResult EXCEPT !.kind = "nil"])
          ELSE [@ EXCEPT !.pc = "checked"]]
    /\ pmu = 0
    /\ pmu' = IF predicts'[q].pc = "done" THEN q ELSE 0
    /\ UNCHANGED <<fs, cwd, pred, active, native, reloads>>
    /\ UNCHANGED <<trainerVars, pureVars>>

\* part_001:352-354: the unlocked nil checks
PredictCheck(q) ==
    /\ predicts[q].pc = "none"
    /\ \A s \in Predicts : s < q => predicts[s].pc # "none"
    /\ predicts' = [predicts EXCEPT ![q] =
          IF pred = "nil" \/ session = Nil \/ model = NoModel
          THEN PredictReturn(q, [NoResult EXCEPT !.kind = "nil"])
          ELSE [@ EXCEPT !.pc = "checked"]]
    /\ UNCHANGED <<fs, cwd, pred, pmu, active, native, reloads>>
    /\ UNCHANGED <<trainerVars, pureVars>>

\* part_001:359-370: take the lock, preprocess, copy into the input tensor
PredictCopy(q) ==
    /\ predicts[q].pc = "checked"
    /\ pmu = 0
    /\ \E fail \in BOOLEAN :
         IF fail
         THEN /\ predicts' = [predicts EXCEPT ![q] = PredictReturn(q, PredictErr)]
              /\ UNCHANGED pmu
         ELSE /\ predicts' = [predicts EXCEPT ![q].pc = "copied", ![q].in = inTensor]
              /\ pmu' = q
    /\ UNCHANGED <<fs, cwd, pred, active, native, reloads>>
    /\ UNCHANGED <<trainerVars, pureVars>>

\* part_001:372-375: session.Run()
PredictRun(q) ==
    /\ predicts[q].pc = "copied"
    /\ \E fail \in BOOLEAN :
         IF fail
         THEN /\ predicts' = [predicts EXCEPT ![q] =
                    [PredictReturn(q, PredictErr) EXCEPT !.sess = session]]
              /\ pmu' = 0
         ELSE /\ predicts' = [predicts EXCEPT ![q].pc = "ran", ![q].sess = session]
              /\ UNCHANGED pmu
    /\ UNCHANGED <<fs, cwd, pred, active, native, reloads>>
    /\ UNCHANGED <<trainerVars, pureVars>>

\* part_001:377-405: read the output tensor, name the classes, release the lock
PredictRead(q) ==
    /\ predicts[q].pc = "ran"
    /\ predicts' = [predicts EXCEPT ![q] =
          [PredictReturn(q, [kind |-> "prediction", ModelVer |-> model.Version,
                             ModelPath |-> model.OnnxPath,
                             ClassNames |-> model.ClassNames])
             EXCEPT !.out = outTensor]]
    /\ pmu' = 0
    /\ UNCHANGED <<fs, cwd, pred, active, native, reloads>>
    /\ UNCHANGED <<trainerVars, pureVars>>

\* ------------------------------------------------------- specifications
StartStep(cfgs) ==
    \/ StartCheck(cfgs) \/ StartInspect \/ StartRemove \/ StartCreate \/ StartStart

StopStep == StopCheck \/ StopIssue

StatusStep == StatusInspect \/ StatusRead

MonitorStep ==
    \E m \in Mons :
       \/ MonitorWaitError(m) \/ MonitorExit(m) \/ MonitorCallback(m)
       \/ RestoreRead(m) \/ RestoreRemove(m) \/ RestoreCreate(m) \/ RestoreStart(m)

NextTrainer ==
    StartStep({DefaultTrainConfig}) \/ StopStep \/ MonitorStep \/ ContainerExit

NextStatus == NextTrainer \/ StatusStep

\* jobs of either config, left to run to their end
NextConfigs == StartStep(Configs) \/ MonitorStep \/ ContainerExit

CancelStep == \E m \in Mons : CancelCtx(m)

NextCancel == NextTrainer \/ CancelStep

\* ---------------------------------------------------------------- Close
\* part_001:226-244: under the lock, destroy what the fields point to; the
\* fields keep pointing to it
Close ==
    /\ pred = "loaded"
    /\ pmu = 0
    /\ LET n1 == IF session # Nil THEN [native EXCEPT ![session].sess = Destroy(@)]
                 ELSE native
           n2 == IF inTensor # Nil THEN [n1 EXCEPT ![inTensor].in = Destroy(@)] ELSE n1
       IN  native' = IF outTensor # Nil THEN [n2 EXCEPT ![outTensor].out = Destroy(@)]
                     ELSE n2
    /\ UNCHANGED <<fs, cwd, pred, pmu, active, reloads, predicts>>
    /\ UNCHANGED <<trainerVars, pureVars>>

ReloadStep ==
    \E r \in Reloads :
       \/ ReloadScan(r) \/ ReloadCheck(r) \/ ReloadAlloc(r) \/ ReloadChdir(r)
       \/ ReloadNewSession(r) \/ ReloadChdirBack(r) \/ ReloadSwap(r)
       \/ ReloadCleanup(r)

PredictStep ==
    \E q \in Predicts :
       PredictCheck(q) \/ PredictCopy(q) \/ PredictRun(q) \/ PredictRead(q)

NextInfer == ReloadStep \/ PredictStep \/ ExportVersion

NextClose == NextInfer \/ Close

vars == <<trainerVars, inferVars, pureVars>>

\* a new Trainer, in a process whose predictor found no model
InitServer == InitTrainer /\ InitUnloaded /\ InitNoCalls

\* a new Trainer, and the predictor as NewORTPredictor returned it
InitPredictor == InitTrainer /\ (InitUnloaded \/ InitLoaded) /\ InitNoCalls

\* a FindSkyStateModel call on any of the roots, for any of the versions
InitRegistry ==
    /\ InitTrainer /\ InitUnloaded
    /\ findCall \in [pc : {"call"}, root : RegRoots,
                     version : {<<>>, V9, V10, X1, V1}, result : {NoModel}]
    /\ stripCall = NoStrip

SpecRegistry == InitRegistry /\ [][FindModel]_vars

\* a stripDockerLogHeaders call on any of the log inputs
InitLogs ==
    /\ InitTrainer /\ InitUnloaded
    /\ findCall = NoFind
    /\ \E parts \in LogInputs, tail \in LogTails :
         stripCall = [pc |-> "call", parts |-> parts, tail |-> tail,
                      data |-> Flatten(parts) \o tail,
                      result |-> [kind |-> "none", out |-> <<>>]]

SpecLogs == InitLogs /\ [][StripLogs]_vars

\* the Trainer under Start calls with any of the configs
SpecConfigs == InitServer /\ [][NextConfigs]_vars

\* the Trainer under Start and Stop calls
SpecTrainer == InitServer /\ [][NextTrainer]_vars

\* the Trainer under Start, Stop and Status calls
SpecStatus == InitServer /\ [][NextStatus]_vars

\* the Trainer under Start and Stop calls whose callers cancel their contexts
SpecCancel == InitServer /\ [][NextCancel]_vars

\* the predictor under Reload and PredictImage calls while versions are exported
SpecInfer == InitPredictor /\ [][NextInfer]_vars

\* the predictor under Reload, PredictImage and Close calls
SpecClose == InitPredictor /\ [][NextClose]_vars

\* ---------------------------------------------------------- vocabulary
\* the monitor has left its select statement and is past the callback
PastCallback(m) == monitors[m].pc \in {"restore", "remove", "create", "start", "done"}

\* no monitor goroutine is alive
MonitorsQuiet == \A m \in Mons : monitors[m].pc \in {"none", "done"}

\* no Start call has returned ok so far
NoJobYet == \A m \in Mons : monitors[m].pc = "none"

\* this step is Start's check at docker.go:141
IsStartCheck == startCall.pc = "idle" /\ nstarts' = nstarts + 1

\* this step is the last one of monitor m
Finishes(m) == monitors[m].pc # "done" /\ monitors'[m].pc = "done"

\* this step is Stop's check at docker.go:209
IsStopCheck == stopCall.pc = "idle" /\ stopCall' # stopCall

\* this step is the return of a Status call
IsStatusReturn == statusCall.pc = "read" /\ statusCall'.pc = "idle"

\* the values a Status call that returns now may return
StatusResults == {StatusResult(statusCall.id, statusCall.run, ok) : ok \in BOOLEAN}

\* a container exists under the managed name and is running
SlotRunning == slot # 0 /\ containers[slot].state = "running"

\* Reload call r has returned an error
ReloadFailed(r) ==
    /\ reloads[r].pc = "done"
    /\ reloads[r].result \notin {"reloaded", "unchanged", "no model"}

\* this step belongs to Reload call r
IsReloadStep(r) == reloads'[r] # reloads[r]

\* Reload call r got a model from the registry
Resolved(r) == reloads[r].mi # NoModel

\* Reload call r has built a session
Built(r) == native[r].sess # "none"

\* ------------------------------------------------------------------ C1
\* C1: every prediction that returned a result used the input tensor, the
\* output tensor and the session of one and the same build, that session was
\* loaded from the very artifact whose path the prediction reports, and the
\* version it reports is the version of that artifact.
PredictionUsesOneModel ==
    \A q \in Predicts :
       predicts[q].result.kind = "prediction" =>
          /\ predicts[q].in = predicts[q].sess
          /\ predicts[q].out = predicts[q].sess
          /\ native[predicts[q].sess].file = predicts[q].result.ModelPath
          /\ predicts[q].result.ModelVer = predicts[q].result.ModelPath.version

\* ------------------------------------------------------------------ C2
\* C2: a Reload call that returned an error has made none of its own objects
\* active, has built no session, and has destroyed exactly once each tensor it
\* had created; and no step of a Reload call other than the swap under the
\* lock (which a failing call never reaches) changes the active model,
\* session or tensors.
FailedReloadLeavesActive ==
    /\ [](\A r \in Reloads :
            ReloadFailed(r) =>
               /\ session # r /\ inTensor # r /\ outTensor # r
               /\ native[r].sess = "none"
               /\ native[r].in \in {"none", "destroyed"}
               /\ native[r].out \in {"none", "destroyed"})
    /\ [][\A r \in Reloads :
            (IsReloadStep(r) /\ reloads[r].pc # "swap") => UNCHANGED active]_vars

\* a Reload call failed at session construction after creating both tensors,
\* and another failed in the registry, on a loaded predictor
ReloadFailedTwoWays ==
    /\ pred = "loaded"
    /\ session = 0
    /\ \E r1, r2 \in Reloads :
         /\ reloads[r1].pc = "done" /\ reloads[r1].result = "create session"
         /\ native[r1].in = "destroyed" /\ native[r1].out = "destroyed"
         /\ reloads[r2].pc = "done" /\ reloads[r2].result = "scan models"

\* ------------------------------------------------------------------ C3
\* C3: of two Reload calls that resolved the same artifact path, while no
\* Reload call resolved any other path, at most one has built a session.
SamePathBuildsOnce ==
    \A r1, r2 \in Reloads :
       (/\ r1 # r2
        /\ Resolved(r1) /\ Resolved(r2)
        /\ \A r3 \in Reloads :
              Resolved(r3) => reloads[r3].mi.OnnxPath = reloads[r1].mi.OnnxPath)
       => ~(Built(r1) /\ Built(r2))

\* ------------------------------------------------------------------ C4
\* C4: every monitor (one per Start that returned ok) has called OnComplete
\* exactly once when it saw its container exit with status 0 and is past the
\* call, and not at all otherwise (nonzero status, failed wait, not yet there);
\* so the calls made equal the jobs seen to exit with 0.
CallbackOncePerCleanExit ==
    /\ \A m \in Mons :
         monitors[m].cbs =
            IF PastCallback(m) /\ monitors[m].outcome = "exit" /\ monitors[m].code = 0
            THEN 1 ELSE 0
    /\ \A m \in Mons : monitors[m].pc # "none" => m <= nstarts

\* two jobs have finished, one with status 0 and one with a nonzero status
CleanAndFailedJobDone ==
    \E m1, m2 \in Mons :
       /\ monitors[m1].pc = "done" /\ monitors[m1].outcome = "exit"
       /\ monitors[m1].code = 0 /\ monitors[m1].cbs = 1
       /\ monitors[m2].pc = "done" /\ monitors[m2].outcome = "exit"
       /\ monitors[m2].code # 0 /\ monitors[m2].cbs = 0

\* ------------------------------------------------------------------ C5
\* C5: a monitor that saw exit status 0 records running=false and exitCode=0,
\* then calls OnComplete, then restores the idle container; and when it has
\* finished (no Docker call having failed for outside reasons) a running
\* container created from the saved template holds the managed name.
CleanExitRestoresIdle ==
    /\ [](\A m \in Mons :
            (monitors[m].outcome = "exit" /\ monitors[m].code = 0) =>
               /\ monitors[m].cbs = 1 <=> PastCallback(m)
               /\ monitors[m].restores = 1 => monitors[m].cbs = 1)
    /\ [][\A m \in Mons :
            (Finishes(m) /\ monitors[m].outcome = "exit" /\ monitors[m].code = 0
                /\ NoFault(faults')) =>
               /\ slot' # 0
               /\ containers'[slot'].state = "running"
               /\ containers'[slot'].config = monitors[m].base]_vars

FreshStopIsConflict ==
    NoJobYet =>
       /\ stopCall.pc = "idle"
       /\ stopCall.result \in {"none", "conflict"}
       /\ statusCall.pc = "read" =>
             \A r \in StatusResults : r.Running = FALSE /\ r.Error = ""

\* ------------------------------------------------------------------ C8
\* C8: once the monitor of a job that exited with a nonzero code has finished
\* and nothing else is in progress, a Status call reports running=false, that
\* exit code and the error naming it, and a Start call is not rejected with
\* Conflict.
FailedJobDone(m) ==
    /\ monitors[m].pc = "done" /\ monitors[m].outcome = "exit" /\ monitors[m].code # 0
    /\ m = nstarts
    /\ MonitorsQuiet
    /\ startCall.pc = "idle" /\ stopCall.pc = "idle"

FailedJobThenStartAccepted ==
    [][\A m \in Mons :
          (FailedJobDone(m) /\ NoFault(faults')) =>
             /\ IsStatusReturn =>
                  \A r \in StatusResults :
                     /\ r.Running = FALSE
                     /\ r.ExitCode = monitors[m].code
                     /\ r.Error = ExitErr(monitors[m].code)
             /\ IsStartCheck => startCall'.result # "conflict"]_vars

\* ------------------------------------------------------------------ C9
\* C9: a monitor whose wait call errors clears running and records the error
\* text in that step, never calls OnComplete, and goes on to idle restoration;
\* whatever the outcome, a finished monitor has called restoreIdleContainer
\* exactly once, and no monitor calls it before its outcome is recorded.
WaitErrorStillRestores ==
    /\ [](\A m \in Mons :
            /\ monitors[m].pc = "done" => monitors[m].restores = 1
            /\ monitors[m].pc \in {"none", "wait", "callback", "restore"}
                  => monitors[m].restores = 0
            /\ monitors[m].restores <= 1
            /\ monitors[m].outcome = "waiterr" =>
                  monitors[m].cbs = 0 /\ PastCallback(m))
    /\ [][\A m \in Mons :
            (monitors[m].pc = "wait" /\ monitors'[m].outcome = "waiterr") =>
               /\ running' = FALSE
               /\ lastError' \in {WaitErrText(TRUE), WaitErrText(FALSE)}
               /\ monitors'[m].pc = "restore"]_vars

\* both outcomes have been seen and both monitors have restored once
BothOutcomesRestored ==
    \E m1, m2 \in Mons :
       /\ monitors[m1].pc = "done" /\ monitors[m1].outcome = "waiterr"
       /\ monitors[m1].restores = 1
       /\ monitors[m2].pc = "done" /\ monitors[m2].outcome = "exit"
       /\ monitors[m2].restores = 1

SlotMutation ==
    \/ slot' # slot
    \/ \E i \in Ids : /\ containers'[i].state # containers[i].state
                      /\ containers'[i].state # "exited"
    \/ stopCall.pc = "stop" /\ containers' # containers

\* ----------------------------------------------------------------- C11
\* C11: every step that removes, creates, starts or stops the managed
\* container is taken while the Trainer's lock is held.
SlotMutationsUnderLock ==
    [][SlotMutation => mu # "free"]_vars

\* this step is the inspect a Status call makes first
IsStatusInspect == statusCall.pc = "idle" /\ statusCall'.pc = "read"

\* ----------------------------------------------------------------- C12
\* C12: the live state a Status call goes by is the one its own inspect saw:
\* running only if that inspect succeeded and found the managed container
\* running, and no id and not running when it failed; and whatever the call
\* returns has Running set only if the cached flag is set and that inspect
\* saw the container running, and carries the id that inspect gave.
StatusRunningNeedsBoth ==
    [][/\ IsStatusInspect =>
            /\ statusCall'.run = (faults' = faults /\ InspectRunning)
            /\ faults' # faults => statusCall'.id = 0
       /\ IsStatusReturn =>
            \A r \in StatusResults :
               /\ r.Running => (running /\ statusCall.run)
               /\ r.ContainerID = statusCall.id]_vars

\* a Status call is about to return while the cached flag is set but its
\* inspect failed
StatusInspectFailedWhileFlagSet ==
    /\ statusCall.pc = "read"
    /\ running
    /\ ~statusCall.run /\ statusCall.id = 0
    /\ faults.n > 0
    /\ \A r \in StatusResults : ~r.Running /\ r.ContainerID = 0

\* the job monitor m watches is still running in the managed container
JobUp(m) ==
    /\ monitors[m].pc = "wait"
    /\ slot = monitors[m].cid
    /\ containers[slot].state = "running"

\* nothing but monitor m's wait is in progress in the Trainer
OnlyWaiting(m) ==
    /\ startCall.pc = "idle" /\ stopCall.pc = "idle"
    /\ \A o \in Mons : o # m => monitors[o].pc \in {"none", "done"}

\* ----------------------------------------------------------------- C13
\* C13: when the job of the Start that returned ok last is still running and
\* nothing else is in progress (so nothing the program does will change the
\* job record while the container keeps running), a Status call whose inspect
\* saw that container running reports running=true with the startedAt that
\* Start recorded.
RunningJobReported ==
    \A m \in Mons :
       (/\ JobUp(m) /\ OnlyWaiting(m)
        /\ statusCall.pc = "read"
        /\ statusCall.run /\ statusCall.id = monitors[m].cid)
       => \A r \in StatusResults : r.Running /\ r.StartedAt = m

\* the managed name holds a running container with the idle command
IdleRunning == SlotRunning /\ containers[slot].config.Cmd = IdleCmd

\* ----------------------------------------------------------------- C14
\* C14: once a Stop has returned ok and nothing is in progress any more (no
\* Start call, no Stop call, no live monitor), the run has ended the way a
\* completed run ends: the running flag is clear and a running idle
\* container holds the managed name.
StoppedRunEndsIdle ==
    (/\ stopCall.pc = "idle" /\ stopCall.result = "ok"
     /\ startCall.pc = "idle"
     /\ MonitorsQuiet)
    => (~running /\ IdleRunning)

\* this step belongs to a Stop call
IsStopStep == stopCall' # stopCall

\* ----------------------------------------------------------------- C15
\* C15: a step of a Stop call changes no field of the job record and nothing
\* of the restoration template, removes and creates no container (the slot
\* and the ids are as before), and the only change it makes to any container
\* is that the one it asked to stop goes from running to exited.
StopOnlyStops ==
    [][IsStopStep =>
         /\ UNCHANGED <<jobRecord, template, slot, nextId, monitors>>
         /\ \A i \in Ids :
              containers'[i] # containers[i] =>
                 /\ i = stopCall.id
                 /\ containers[i].state = "running"
                 /\ containers'[i].state = "exited"
                 /\ containers'[i].config = containers[i].config]_vars

\* a Stop has returned ok for a training job, whose monitor has seen it end
\* on the stop signal
StopEndedAJob ==
    /\ stopCall.pc = "idle" /\ stopCall.result = "ok"
    /\ \E m \in Mons : monitors[m].outcome = "exit" /\ monitors[m].code = 137

\* this step is the return of a Start call with ok
IsStartOk == startCall.pc = "start" /\ startCall'.result = "ok"

\* ----------------------------------------------------------------- C16
\* C16: when a Start returns ok the job record is that of the new job alone:
\* the given config, the new start time, running set, error and logs empty,
\* and the exit code back at its zero value.
StartOkResetsRecord ==
    [][IsStartOk =>
         /\ lastConfig' = startCall.cfg
         /\ startedAt' = nstarts
         /\ running'
         /\ lastError' = ""
         /\ lastLogs' = ""
         /\ lastExitCode' = 0]_vars

\* the context passed to the Start of monitor m's job has been cancelled
Cancelled(m) == monitors[m].ctx = "cancelled"

\* this step belongs to monitor m
IsMonitorStep(m) == monitors'[m].pc # monitors[m].pc

\* ----------------------------------------------------------------- C17
\* C17: a monitor whose Start context was cancelled leaves its wait only
\* when its container is no longer running or the wait call failed for an
\* outside reason; its removal for the idle restoration goes through unless
\* it fails for an outside reason; and when it is done it has recorded an
\* outcome and made its one restoration attempt.
CancelLeavesMonitor ==
    /\ [](\A m \in Mons :
            (Cancelled(m) /\ monitors[m].pc = "done") =>
               /\ monitors[m].outcome \in {"exit", "waiterr"}
               /\ monitors[m].restores = 1)
    /\ [][\A m \in Mons :
            (Cancelled(m) /\ IsMonitorStep(m)) =>
               /\ monitors[m].pc = "wait" =>
                    \/ containers[monitors[m].cid].state # "running"
                    \/ faults' # faults
               /\ monitors[m].pc = "remove" =>
                    (slot' = 0 \/ faults' # faults)]_vars

\* a job whose Start context was cancelled while it ran has been seen to
\* exit by its monitor, which has put the idle container back
CancelledJobRestored ==
    /\ \E m \in Mons :
         /\ Cancelled(m)
         /\ monitors[m].pc = "done" /\ monitors[m].outcome = "exit"
         /\ monitors[m].restores = 1
    /\ MonitorsQuiet /\ startCall.pc = "idle"
    /\ IdleRunning

\* monitor m is inside restoreIdleContainer
Restoring(m) == monitors[m].pc \in {"restore", "remove", "create", "start"}

\* ----------------------------------------------------------------- C18
\* C18: every step of an idle restoration leaves the job record and the
\* template as they are; with no template it ends at once without touching
\* the platform; after the removal, failed or not, the creation is what comes
\* next; a creation that meets no failure and no container under the name
\* puts a container with the template's config in the slot and the start is
\* what comes next; and a failed creation or start just ends the restoration.
RestorationIsBestEffort ==
    [][\A m \in Mons :
         (Restoring(m) /\ IsMonitorStep(m)) =>
            /\ UNCHANGED <<jobRecord, template>>
            /\ (monitors[m].pc = "restore"
                   /\ (baseConfig = NilConfig \/ baseHostConfig = "")) =>
                 (monitors'[m].pc = "done" /\ UNCHANGED <<platform, faults>>)
            /\ monitors[m].pc = "remove" => monitors'[m].pc = "create"
            /\ (monitors[m].pc = "create" /\ slot = 0 /\ faults' = faults) =>
                 /\ monitors'[m].pc = "start"
                 /\ slot' # 0
                 /\ containers'[slot'].config = monitors[m].base
                 /\ containers'[slot'].state = "created"
            /\ monitors[m].pc \in {"create", "start"} =>
                 monitors'[m].pc \in {"start", "done"}]_vars

\* a restoration whose removal returned an error has gone on to create a
\* container from the template
CreatedAfterRemoveError ==
    \E m \in Mons :
       /\ monitors[m].pc = "start"
       /\ monitors[m].rmErr
       /\ slot = monitors[m].restored
       /\ containers[slot].config.Cmd = IdleCmd

\* ----------------------------------------------------------------- C19
\* C19: a monitor that is past its callback has led to exactly one Reload
\* call of the predictor (for the latest version of the configured models
\* root) when it saw its container exit with status 0, and to none otherwise.
ReloadOncePerCleanExit ==
    \A m \in Mons :
       PastCallback(m) =>
          monitors[m].reloadCalls =
             IF monitors[m].outcome = "exit" /\ monitors[m].code = 0 THEN 1 ELSE 0

\* every version directory there is holds a usable model, and there is one
AllVersionsUsable ==
    /\ \E v \in Versions : fs.ents[v] = ValidEntry
    /\ \A v \in Versions : fs.ents[v] \in {NoEntry, ValidEntry}

\* this step is the first one of Reload call r
IsReloadCall(r) == reloads[r].pc = "none" /\ IsReloadStep(r)

\* ----------------------------------------------------------------- C20
\* C20: a Reload call made while every version directory holds a usable
\* model is not turned down for want of a loaded engine: either the version
\* asked for is absent, or the call goes on to load the version it resolved.
UnloadedEngineLoads ==
    [][\A r \in Reloads :
         (IsReloadCall(r) /\ AllVersionsUsable) =>
            \/ reloads'[r].pc = "check"
            \/ reloads'[r].result = "no model"]_vars

\* a session or tensor has been destroyed more than once
DestroyedTwice ==
    \E b \in Bundles :
       native[b].sess = "twice" \/ native[b].in = "twice" \/ native[b].out = "twice"

\* ----------------------------------------------------------------- C21
\* C21: no session and no tensor is ever destroyed a second time, and a
\* prediction that has written the input tensor or run the session (and still
\* holds the lock) has written a live tensor and run a live session.
NoUseAfterDestroy ==
    /\ ~DestroyedTwice
    /\ \A q \in Predicts :
         /\ predicts[q].pc \in {"copied", "ran"} =>
               native[predicts[q].in].in = "live"
         /\ predicts[q].pc = "ran" => native[predicts[q].sess].sess = "live"

\* prediction q has written the input tensor and not yet read the output tensor
InWindow(q) == predicts[q].pc \in {"copied", "ran"}

\* ----------------------------------------------------------------- C22
\* C22: at most one prediction at a time is between its write of the input
\* tensor and its read of the output tensor, and no step changes the active
\* model, session or tensors while a prediction is in that window.
OnePredictionNoSwapInside ==
    /\ [](\A q1, q2 \in Predicts : (InWindow(q1) /\ InWindow(q2)) => q1 = q2)
    /\ [][(\E q \in Predicts : InWindow(q)) => UNCHANGED active]_vars

\* a prediction has run the session while a Reload call stands ready to swap
\* and another prediction waits for the lock
SwapWaitsForPrediction ==
    /\ \E q \in Predicts : predicts[q].pc = "ran"
    /\ \E q \in Predicts : predicts[q].pc = "checked"
    /\ \E r \in Reloads : reloads[r].pc = "swap"

\* prediction q reads p.session and p.model for its nil checks in this step
IsPredictCheck(q) ==
    /\ pred # "nil"
    /\ predicts[q].pc = "none"
    /\ predicts'[q].pc # "none"

\* ----------------------------------------------------------------- C23
\* C23: a prediction reads the active session and model only as the holder of
\* the lock, so never while another caller is inside its locked section.
ActiveStateReadUnderLock ==
    [][\A q \in Predicts : IsPredictCheck(q) => pmu \in {0, q}]_vars

\* prediction q starts in this step on an engine that has no model
IsPredictOnEmpty(q) ==
    /\ predicts[q].pc = "none"
    /\ predicts'[q].pc # "none"
    /\ (pred = "nil" \/ session = Nil \/ model = NoModel)

\* ----------------------------------------------------------------- C24
\* C24: a prediction on an engine with no model returns at once with neither
\* a prediction nor an error, and leaves the engine, the lock, the native
\* objects, the files and the working directory as they were.
EmptyEnginePredictsNothing ==
    [][\A q \in Predicts : IsPredictOnEmpty(q) =>
          /\ predicts'[q] = PredictReturn(q, [NoResult EXCEPT !.kind = "nil"])
          /\ UNCHANGED <<fs, cwd, pred, pmu, active, native, reloads>>]_vars

\* a prediction on the engine without a model has returned the empty result
\* while a Reload call was under way
EmptyResultReturned ==
    /\ pred = "nil"
    /\ \E q \in Predicts : predicts[q].pc = "done" /\ predicts[q].result.kind = "nil"
    /\ \E r \in Reloads : reloads[r].pc # "none"

\* the FindSkyStateModel call has returned
FindDone == findCall.pc = "done"

\* the listing of the call's root succeeds
Listed == findCall.root.exists /\ findCall.root.readable

\* the directories of the call's root that carry the version prefix
Prefixed ==
    {n \in DOMAIN findCall.root.ents :
        findCall.root.ents[n].kind = "dir" /\ n # <<>> /\ Head(n) = "v"}

\* the call selects directory n: the one asked for, or with no version asked
\* for the greatest prefixed name in byte order
Selects(n) ==
    /\ Listed
    /\ n \in Prefixed
    /\ IF findCall.version = <<>>
       THEN \A w \in Prefixed : w = n \/ StrLess(w, n)
       ELSE n = findCall.version

\* ----------------------------------------------------------------- C25
\* C25: when the version directory a call selects holds no model.onnx, the
\* call returns "no model" and no error, whatever classes.json is there.
ArtifactMissingIsNoModel ==
    \A n \in RegNames :
       (FindDone /\ Selects(n) /\ ~findCall.root.ents[n].onnx)
          => findCall.result = NoModel

\* a call for the latest version has selected a directory that has an
\* unparsable classes.json and no model.onnx
NoArtifactBadClasses ==
    /\ FindDone
    /\ findCall.version = <<>>
    /\ \E n \in RegNames :
          /\ Selects(n)
          /\ ~findCall.root.ents[n].onnx
          /\ findCall.root.ents[n].classes.kind = "garbage"

\* the call selects directory n, which holds model.onnx and a classes.json
\* that parses as a map
ReadsClassMap(n) ==
    /\ FindDone
    /\ Selects(n)
    /\ findCall.root.ents[n].onnx
    /\ findCall.root.ents[n].classes.kind = "json"

\* the indices of a class map, and those up to the largest that no name maps to
Indices(m) == {m[k] : k \in DOMAIN m}
Unnamed(m) ==
    {i \in 0..MaxInt : (\E j \in Indices(m) : i <= j) /\ i \notin Indices(m)}

\* ----------------------------------------------------------------- C26
\* C26: with model.onnx present, a class map whose indices are exactly 0..n-1
\* (n >= 1) gives a model whose ClassNames has length n and holds at i the
\* non-empty name mapped to i, and a class map with an unnamed index up to its
\* largest gives the missing-name error for such an index.
ClassMapDecidesResult ==
    \A n \in RegNames :
       ReadsClassMap(n) =>
          LET m == findCall.root.ents[n].classes.map
              res == findCall.result
          IN  /\ (Indices(m) # {} /\ Indices(m) = 0..(Cardinality(Indices(m)) - 1)) =>
                    /\ res.kind = "model"
                    /\ DOMAIN res.ClassNames = Indices(m)
                    /\ \A i \in Indices(m) :
                          res.ClassNames[i] # "" /\ m[res.ClassNames[i]] = i
              /\ Unnamed(m) # {} =>
                    /\ res.kind = "error"
                    /\ \E i \in Unnamed(m) :
                          res.msg = "classes.json missing name for id " \o FmtInt(i)

NoModelApartFromError ==
    FindDone =>
       /\ \A n \in RegNames :
             (/\ Selects(n)
              /\ findCall.root.ents[n].onnx
              /\ LET c == findCall.root.ents[n].classes
                 IN  \/ c.kind \in {"missing", "garbage"}
                     \/ c.kind = "json" /\ (DOMAIN c.map = {} \/ Unnamed(c.map) # {}))
                => findCall.result.kind = "error"
       /\ findCall.result = NoModel =>
             \/ ~findCall.root.exists
             \/ Listed /\ ~\E n \in RegNames : Selects(n)
             \/ \E n \in RegNames : Selects(n) /\ ~findCall.root.ents[n].onnx

\* the stripDockerLogHeaders call has returned
StripDone == stripCall.pc = "done"

\* the number four bytes spell, most significant byte first
RECURSIVE BigEndian(_)
BigEndian(bytes) ==
    IF bytes = <<>> THEN 0
    ELSE BigEndian(SubSeq(bytes, 1, Len(bytes) - 1)) * 256 + bytes[Len(bytes)]

\* the length a header declares
Declared(hdr) == BigEndian(SubSeq(hdr, 5, 8))

\* the first k pieces of the input are chunks as their headers declare them
WellFormedUpTo(k) ==
    \A i \in 1..k : Declared(stripCall.parts[i].hdr) = Len(stripCall.parts[i].payload)

\* the payloads of pieces i..j, in order
RECURSIVE Payloads(_, _)
Payloads(i, j) ==
    IF i > j THEN <<>> ELSE stripCall.parts[i].payload \o Payloads(i + 1, j)

\* ----------------------------------------------------------------- C29
\* C29: for an input that is a sequence of well-formed chunks, whatever their
\* stream-type and reserved bytes, the decoded log is the payloads in order;
\* the header 1,0,0,0,0,0,0,5 followed by "hello" decodes to "hello".
WellFormedDecodesToPayloads ==
    StripDone =>
       /\ (stripCall.tail = <<>> /\ WellFormedUpTo(Len(stripCall.parts))) =>
             stripCall.result = [kind |-> "ok", out |-> Payloads(1, Len(stripCall.parts))]
       /\ stripCall.data = <<1, 0, 0, 0, 0, 0, 0, 5, 104, 101, 108, 108, 111>> =>
             stripCall.result = [kind |-> "ok", out |-> <<104, 101, 108, 108, 111>>]

\* two well-formed chunks with payloads, of different stream types and
\* reserved bytes, have been decoded
TwoStreamsDecoded ==
    /\ StripDone
    /\ stripCall.tail = <<>>
    /\ Len(stripCall.parts) = 2
    /\ WellFormedUpTo(2)
    /\ stripCall.parts[1].hdr[1] # stripCall.parts[2].hdr[1]
    /\ stripCall.parts[1].hdr[2] # stripCall.parts[2].hdr[2]
    /\ stripCall.parts[1].payload # <<>>
    /\ stripCall.parts[2].payload # stripCall.parts[1].payload
    /\ stripCall.parts[2].payload # <<>>

\* what follows the header of piece k in the input
AfterHeader(k) ==
    stripCall.parts[k].payload
       \o Flatten(SubSeq(stripCall.parts, k + 1, Len(stripCall.parts)))
       \o stripCall.tail

\* piece k is the first whose header is not matched by its payload, and it
\* declares more bytes than follow it
Overshoots(k) ==
    /\ k \in 1..Len(stripCall.parts)
    /\ WellFormedUpTo(k - 1)
    /\ Declared(stripCall.parts[k].hdr) > Len(AfterHeader(k))

\* ----------------------------------------------------------------- C30
\* C30: every call returns, without a slice out of range; and when a header
\* declares more bytes than follow it, all the bytes that follow are that
\* chunk's payload and the decoding ends there.
OvershootIsClamped ==
    /\ stripCall.pc = "call" => stripDockerLogHeaders(stripCall.data).kind = "ok"
    /\ StripDone =>
          /\ stripCall.result.kind = "ok"
          /\ Len(stripCall.result.out) <= Len(stripCall.data)
          /\ \A k \in 1..MaxChunks :
                Overshoots(k) =>
                   stripCall.result.out = Payloads(1, k - 1) \o AfterHeader(k)

\* a well-formed chunk was followed by a header declaring 256 bytes with
\* fewer bytes after it, and the call has returned
SecondChunkOvershot ==
    /\ StripDone
    /\ Overshoots(2)
    /\ stripCall.parts[1].payload # <<>>
    /\ AfterHeader(2) # <<>>

\* Start creates the training container in this step
IsStartCreate == startCall.pc = "create" /\ startCall'.pc = "start"

\* the arguments the given config stands for, spelled out
SpelledArgs(cfg) ==
    IF cfg.Epochs = 10
    THEN <<"--epochs", "10", "--batch", "16", "--lr", "0.001", "--img", "224",
           "--seed", "42", "--val", "0.2">>
    ELSE <<"--epochs", "5", "--batch", "16", "--lr", "0.001", "--img", "224",
           "--seed", "42", "--val", "0.2">>

\* ----------------------------------------------------------------- C31
\* C31: the container Start creates takes the managed name and has the
\* template's host configuration and the template's configuration in every
\* field but Cmd; its Cmd is python -m trainer.train followed by the
\* arguments of the config, with --from-scratch last exactly when the flag is
\* set; and the template, its Cmd included, is as it was before the creation.
StartCreatesFromTemplate ==
    [][IsStartCreate =>
          LET c == containers'[slot']
              cmd == <<"python", "-m", "trainer.train">> \o SpelledArgs(startCall.cfg)
          IN  /\ slot = 0 /\ slot' = startCall'.id /\ slot' # 0
              /\ c.host = baseHostConfig
              /\ c.config.Image = baseConfig.Image
              /\ c.config.Env = baseConfig.Env
              /\ DOMAIN c.config = DOMAIN baseConfig
              /\ c.config.Cmd = IF startCall.cfg.FromScratch
                                THEN Append(cmd, "--from-scratch") ELSE cmd
              /\ UNCHANGED template]_vars

\* after a default job of 10 epochs, the container of a from-scratch job of 5
\* epochs has been created
BothCommandsCreated ==
    /\ lastConfig = DefaultTrainConfig
    /\ startCall.pc = "start"
    /\ containers[slot].config.Cmd[5] = "5"
    /\ containers[slot].config.Cmd[Len(containers[slot].config.Cmd)] = "--from-scratch"

\* the session and tensors the fields point to are live
ActiveLive ==
    /\ session # Nil => native[session].sess = "live"
    /\ inTensor # Nil => native[inTensor].in = "live"
    /\ outTensor # Nil => native[outTensor].out = "live"

\* ----------------------------------------------------------------- C32
\* C32: the session and tensors in use are live at all times; a prediction
\* between its write of the input tensor and its read of the output tensor
\* works on the active, live tensors and session; and a session or tensor is
\* destroyed only when it is no longer the active one, that is after the swap.
ReleaseOnlyAfterSwap ==
    /\ [](ActiveLive
            /\ \A q \in Predicts :
                  InWindow(q) =>
                     /\ predicts[q].in = inTensor
                     /\ native[predicts[q].in].in = "live"
                     /\ predicts[q].pc = "ran" =>
                           /\ predicts[q].sess = session
                           /\ native[predicts[q].sess].sess = "live")
    /\ [][\A b \in Bundles :
            /\ (native[b].sess = "live" /\ native'[b].sess # "live") => session # b
            /\ (native[b].in = "live" /\ native'[b].in # "live") => inTensor # b
            /\ (native[b].out = "live" /\ native'[b].out # "live") => outTensor # b]_vars

\* a prediction ran the first session to its end, a Reload has since swapped
\* and destroyed that session, and a later prediction is running the new one
OldSessionOutlivedPrediction ==
    \E q1, q2 \in Predicts :
       /\ predicts[q1].pc = "done" /\ predicts[q1].result.kind = "prediction"
       /\ predicts[q1].sess = 0
       /\ native[0].sess = "destroyed"
       /\ predicts[q2].pc = "ran" /\ predicts[q2].sess # 0

\* ----------------------------------------------------------------- C33
\* C33: once Start has saved a restoration template, the template is the
\* configuration of the idle container: its command is never a training
\* command.
TemplateIsIdle ==
    baseConfig # NilConfig => (baseConfig = ComposeConfig /\ ~IsTrainCmd(baseConfig.Cmd))

\* ----------------------------------------------------------------- C34
\* C34: a step of one monitor's idle restoration leaves the running container
\* of another, later job where it is: in the slot and running.
RestoreSparesLaterJob ==
    [][\A m, k \in Mons :
          (IsMonitorStep(m) /\ Restoring(m) /\ k # m /\ JobUp(k)) =>
             /\ slot' = slot
             /\ containers'[slot].state = "running"]_vars

\* ----------------------------------------------------------------- C35
\* C35: a model the call returns names every class of classes.json once:
\* ClassNames has as many entries as Classes has names, and for each name the
\* entry at the name's index is that name (so no map with two names on one
\* index or with a negative index is returned as a model).
ClassNamesCoverClasses ==
    (FindDone /\ findCall.result.kind = "model") =>
       LET res == findCall.result
       IN  /\ Cardinality(DOMAIN res.ClassNames) = Cardinality(DOMAIN res.Classes)
           /\ \A name \in DOMAIN res.Classes :
                 /\ res.Classes[name] \in DOMAIN res.ClassNames
                 /\ res.ClassNames[res.Classes[name]] = name

\* this step belongs to a Start call
IsStartStep == startCall' # startCall

\* ----------------------------------------------------------------- C36
\* C36: a step of a Start call that does not return ok leaves the job record
\* and the monitors as they are, so a Start that returns an error has changed
\* neither; the step that returns ok launches one monitor, on the container it
\* started; and no other step launches a monitor.
FailedStartLeavesRecord ==
    [][/\ (IsStartStep /\ ~IsStartOk) => UNCHANGED <<jobRecord, monitors>>
       /\ IsStartOk =>
             \E m \in Mons :
                /\ monitors[m].pc = "none"
                /\ monitors'[m].pc = "wait"
                /\ monitors'[m].cid = startCall.id
                /\ \A o \in Mons : o # m => monitors'[o] = monitors[o]
       /\ \A m \in Mons :
             (monitors[m].pc = "none" /\ monitors'[m].pc # "none") => IsStartOk]_vars

\* after a Start that returned ok, a second Start has failed in
\* ContainerCreate: the first job's record stands and one monitor exists
SecondStartFailedInCreate ==
    /\ startCall.pc = "idle" /\ startCall.result = "error"
    /\ faults.create
    /\ nstarts = 2
    /\ lastConfig = DefaultTrainConfig
    /\ monitors[1].pc # "none"
    /\ monitors[2].pc = "none"

\* ----------------------------------------------------------------- C37
\* C37: while a monitor is at its completion callback the monitor does not
\* hold the Trainer's lock: unless a Start or a Stop call is in progress the
\* lock is free, so a Status, Start or Stop call made then, by the callback
\* or by anyone else, gets it.
CallbackOutsideLock ==
    \A m \in Mons :
       (monitors[m].pc = "callback" /\ startCall.pc = "idle" /\ stopCall.pc = "idle")
          => mu = "free"

\* a Status call has inspected and waits to read the job record while a
\* monitor of a cleanly ended job is at its callback
StatusDuringCallback ==
    /\ statusCall.pc = "read"
    /\ startCall.pc = "idle" /\ stopCall.pc = "idle"
    /\ \E m \in Mons : monitors[m].pc = "callback" /\ monitors[m].code = 0

\* no Reload call is in progress
ReloadsQuiet == \A r \in Reloads : reloads[r].pc \in {"none", "done"}

\* ----------------------------------------------------------------- C38
\* C38: whenever no Reload call is in progress, the working directory of the
\* process is the one it had before the first Reload call.
CwdRestoredAfterReloads ==
    ReloadsQuiet => cwd = OrigDir

\* a native object is gone for good, or was never made
Released(st) == st \in {"none", "destroyed"}

\* ----------------------------------------------------------------- C39
\* C39: on a loaded engine, whenever no Reload call is in progress the active
\* session and tensors are live, and every other session and tensor that was
\* ever made has been destroyed, once.
QuietReloadsLeakNothing ==
    (pred = "loaded" /\ ReloadsQuiet) =>
       /\ ActiveLive
       /\ session # Nil /\ inTensor = session /\ outTensor = session
       /\ \A b \in Bundles :
             b # session =>
                /\ Released(native[b].sess)
                /\ Released(native[b].in)
                /\ Released(native[b].out)

\* two Reload calls have each swapped in a new session and all that was made
\* before the active one is destroyed
TwoSwapsAllReleased ==
    /\ pred = "loaded"
    /\ ReloadsQuiet
    /\ \A r \in Reloads : reloads[r].result = "reloaded"
    /\ native[0].sess = "destroyed" /\ native[0].in = "destroyed"
    /\ \E b \in Reloads : b # session /\ native[b].sess = "destroyed"

\* what the registry can return for version v of the models root
Found(v) == FindSkyStateModel(fs, ModelsRoot, v)

\* ----------------------------------------------------------------- C40
\* C40: the first step of a Reload call on a loaded engine ends as the
\* registry's answer for some version demands: on "no model" the call returns
\* ok at once, on an error it returns the scan error, on a model it goes on
\* with that model; and a call that returns for "no model" has built nothing
\* and leaves the active model, session, tensors and models root, the native
\* objects, the lock and the working directory as they were.
NoModelReloadIsNoOp ==
    [][\A r \in Reloads :
          (IsReloadCall(r) /\ pred = "loaded") =>
             /\ \E v \in Versions \cup {<<>>} :
                   \/ /\ reloads'[r] = ReloadReturn(r, "no model")
                      /\ NoModel \in Found(v)
                   \/ /\ reloads'[r] = ReloadReturn(r, "scan models")
                      /\ \E x \in Found(v) : x.kind = "error"
                   \/ /\ reloads'[r].pc = "check"
                      /\ reloads'[r].mi \in Found(v)
             /\ reloads'[r].result = "no model" =>
                   UNCHANGED <<active, native, pmu, cwd, fs>>]_vars

\* on a loaded engine with no v3 directory a Reload call has returned ok for
\* "no model", and the first session is still the active one and live
ReloadOfAbsentVersionReturned ==
    /\ pred = "loaded"
    /\ fs.ents[V3].kind = "absent"
    /\ \E r \in Reloads : reloads[r].pc = "done" /\ reloads[r].result = "no model"
    /\ session = 0
    /\ native[0].sess = "live"

====
